---- MODULE Spec2Model ----
(***************************************************************************)
(* Verification and settlement core of the x402 Tron facilitator:          *)
(*   toFacilitatorTronSigner (decodeTransaction, broadcastTransaction,     *)
(*   confirmTransaction) and ExactTronScheme (verify, settle).             *)
(*                                                                         *)
(* Strings are sequences of one-character strings, so that substring       *)
(* search, case folding, slicing and the hex regexes are computed the way  *)
(* the code computes them.  A missing JSON field and the empty string are  *)
(* both <<>>: every test the code applies to them (!x, x.length === 0,     *)
(* the regexes) gives the same answer for the two.                         *)
(***************************************************************************)
EXTENDS Integers, Sequences, FiniteSets, TLC

\* ------------------------------------------------------------------------
\* Characters and strings
\* ------------------------------------------------------------------------
Digits == {"0", "1", "2", "3", "4", "5", "6", "7", "8", "9"}
LowerHexLetters == {"a", "b", "c", "d", "e", "f"}
UpperHexLetters == {"A", "B", "C", "D", "E", "F"}
\* the character class [0-9a-fA-F]
HexChars == Digits \cup LowerHexLetters \cup UpperHexLetters

\* c repeated n times ("a".repeat(n))
Rep(c, n) == [i \in 1..n |-> c]

toLowerCaseChar(c) ==
    CASE c = "A" -> "a" [] c = "B" -> "b" [] c = "C" -> "c"
      [] c = "D" -> "d" [] c = "E" -> "e" [] c = "F" -> "f"
      [] OTHER -> c

\* String.prototype.toLowerCase
toLowerCase(s) == [i \in 1..Len(s) |-> toLowerCaseChar(s[i])]

CapitalChar(c) ==
    CASE c = "a" -> "A" [] c = "b" -> "B" [] c = "c" -> "C"
      [] c = "d" -> "D" [] c = "e" -> "E" [] c = "f" -> "F"
      [] OTHER -> c

\* the hex string s spelled with capital letters
Capitals(s) == [i \in 1..Len(s) |-> CapitalChar(s[i])]

\* String.prototype.substring(from, to) with 0-based, end-exclusive indices
substring(s, from, to) ==
    LET hi == IF to > Len(s) THEN Len(s) ELSE to
    IN  IF from >= hi THEN <<>> ELSE SubSeq(s, from + 1, hi)

\* String.prototype.includes: needle occurs as a contiguous substring
includes(hay, needle) ==
    \E i \in 0..(Len(hay) - Len(needle)) :
        \A j \in 1..Len(needle) : hay[i + j] = needle[j]

\* /^[0-9a-fA-F]+$/.test(s)
IsHex(s) == Len(s) > 0 /\ \A i \in 1..Len(s) : s[i] \in HexChars

\* /^[0-9a-fA-F]{130}$/.test(s)
SigLen == 130
IsSignatureFormat(s) == Len(s) = SigLen /\ \A i \in 1..Len(s) : s[i] \in HexChars

\* /^0+$/.test(s)
IsAllZero(s) == Len(s) > 0 /\ \A i \in 1..Len(s) : s[i] = "0"

HexVal(c) ==
    CASE c = "0" -> 0 [] c = "1" -> 1 [] c = "2" -> 2 [] c = "3" -> 3
      [] c = "4" -> 4 [] c = "5" -> 5 [] c = "6" -> 6 [] c = "7" -> 7
      [] c = "8" -> 8 [] c = "9" -> 9
      [] toLowerCaseChar(c) = "a" -> 10 [] toLowerCaseChar(c) = "b" -> 11
      [] toLowerCaseChar(c) = "c" -> 12 [] toLowerCaseChar(c) = "d" -> 13
      [] toLowerCaseChar(c) = "e" -> 14 [] toLowerCaseChar(c) = "f" -> 15

\* BigInt("0x" + s) for a hex string s
BigIntHex(s) ==
    LET value[i \in 0..Len(s)] ==
            IF i = 0 THEN 0 ELSE 16 * value[i - 1] + HexVal(s[i])
    IN  value[Len(s)]

\* Buffer.from(s, "hex") for an all-hex s: case-insensitive, and a trailing
\* odd nibble is dropped.  The bytes are kept as their lowercase hex.
BufferFromHex(s) ==
    toLowerCase(SubSeq(s, 1, Len(s) - (Len(s) % 2)))

\* ------------------------------------------------------------------------
\* Chain client (TronWeb) capabilities used by the signer
\* ------------------------------------------------------------------------
Hex41 == <<"4", "1">>
PayerHex       == Hex41 \o Rep("a", 40)
FacilitatorHex == Hex41 \o Rep("b", 40)
MalloryHex     == Hex41 \o Rep("e", 40)
UsdtHex        == Hex41 \o Rep("c", 40)
JunkTokenHex   == Hex41 \o Rep("9", 40)
MerchantHex    == Hex41 \o Rep("d", 40)
StrangerHex    == Hex41 \o Rep("5", 40)
\* what key recovery yields when the signature was made over other bytes
GarbageHex     == Hex41 \o Rep("7", 40)

\* tw.address.fromHex: hex address -> base58 display form.  Injective on
\* the address bytes, blind to the case of the hex digits, and a string
\* that is not hex is returned as it is.
fromHex(h) == IF IsHex(h) THEN <<"T">> \o toLowerCase(h) ELSE h

\* tw.utils.crypto.sha256 over a byte buffer: an injective digest
sha256(bytes) == <<"sha256">> \o bytes

\* private keys known to the model, each with its address
Keys == {"payer", "facilitator", "mallory"}
KeyHex(k) ==
    CASE k = "payer" -> PayerHex
      [] k = "facilitator" -> FacilitatorHex
      [] k = "mallory" -> MalloryHex
KeyChar(k) ==
    CASE k = "payer" -> "a" [] k = "facilitator" -> "b" [] k = "mallory" -> "e"

\* ------------------------------------------------------------------------
\* Signed transactions (test helpers buildFakeTronTx / buildFakeProtobuf)
\* ------------------------------------------------------------------------
TRANSFER == <<"a", "9", "0", "5", "9", "c", "b", "b">>
APPROVE  == <<"0", "9", "5", "e", "a", "7", "b", "3">>
OTHER_SELECTOR == <<"2", "3", "b", "8", "7", "2", "d", "d">>

HexDigitOf(n) ==
    CASE n = 0 -> "0" [] n = 1 -> "1" [] n = 2 -> "2" [] n = 3 -> "3"
      [] n = 4 -> "4" [] n = 5 -> "5" [] n = 6 -> "6" [] n = 7 -> "7"
      [] n = 8 -> "8" [] n = 9 -> "9" [] n = 10 -> "a" [] n = 11 -> "b"
      [] n = 12 -> "c" [] n = 13 -> "d" [] n = 14 -> "e" [] n = 15 -> "f"

\* n.toString(16)
toString16(n) ==
    LET width == CHOOSE k \in 1..7 : n < 16^k /\ (k = 1 \/ n >= 16^(k - 1))
    IN  [i \in 1..width |-> HexDigitOf((n \div 16^(width - i)) % 16)]

\* s.padStart(width, "0")
padStart(s, width) ==
    IF Len(s) >= width THEN s ELSE Rep("0", width - Len(s)) \o s

\* ABI call data: selector + 24 zeros + 20-byte address + 32-byte amount
EncodeCall(selector, toHex, amount) ==
    selector \o Rep("0", 24) \o substring(toHex, 2, 42)
             \o padStart(toString16(amount), 64)

\* the signed bytes: header, owner, contract, call data, trailer
buildFakeProtobuf(ownerHex, contractHex, data) ==
    toLowerCase(<<"0", "a", "0", "2", "1", "0">> \o ownerHex \o contractHex
                \o data \o <<"f", "f">>)

DataPay1     == EncodeCall(TRANSFER, MerchantHex, 1)
DataPay2     == EncodeCall(TRANSFER, MerchantHex, 2)
DataStranger == EncodeCall(TRANSFER, StrangerHex, 2)
DataApprove  == EncodeCall(APPROVE, MerchantHex, 2)
DataOther    == EncodeCall(OTHER_SELECTOR, MerchantHex, 2)
\* a transfer of 1 followed by trailing bytes that spell a transfer of 2;
\* the token contract reads the first 68 bytes only
DataPay1Trail == DataPay1 \o DataPay2
\* a transfer to a stranger followed by trailing bytes that spell a transfer
\* to the merchant
DataStrangerTrail == DataStranger \o DataPay2

\* a call that is one character short of selector + two 32-byte slots
DataTransferShort == SubSeq(DataPay2, 1, 135)
DataApproveShort  == SubSeq(DataApprove, 1, 135)
\* the transfer selector and nothing else
DataSelectorOnly  == TRANSFER
\* the address slot with a non-zero digit in its padding: the first padding
\* character for the transfer, the last one for the approve
DataTransferDirty ==
    TRANSFER \o << "1" >> \o Rep("0", 23) \o substring(MerchantHex, 2, 42)
             \o padStart(toString16(2), 64)
DataApproveDirty ==
    APPROVE \o Rep("0", 23) \o << "1" >> \o substring(MerchantHex, 2, 42)
            \o padStart(toString16(2), 64)

\* what has been signed: [owner, contract, data] of the signed bytes
SignedTxs ==
    << [owner |-> PayerHex,       contract |-> UsdtHex,      data |-> DataPay2],
       [owner |-> PayerHex,       contract |-> UsdtHex,      data |-> DataPay1],
       [owner |-> PayerHex,       contract |-> UsdtHex,      data |-> DataStranger],
       [owner |-> PayerHex,       contract |-> UsdtHex,      data |-> DataApprove],
       [owner |-> PayerHex,       contract |-> UsdtHex,      data |-> DataOther],
       [owner |-> PayerHex,       contract |-> UsdtHex,      data |-> DataPay1Trail],
       [owner |-> PayerHex,       contract |-> JunkTokenHex, data |-> DataPay1],
       [owner |-> FacilitatorHex, contract |-> UsdtHex,      data |-> DataPay2],
       [owner |-> PayerHex,       contract |-> UsdtHex,      data |-> DataTransferShort],
       [owner |-> PayerHex,       contract |-> UsdtHex,      data |-> DataApproveShort],
       [owner |-> PayerHex,       contract |-> UsdtHex,      data |-> DataSelectorOnly],
       [owner |-> PayerHex,       contract |-> UsdtHex,      data |-> DataTransferDirty],
       [owner |-> PayerHex,       contract |-> UsdtHex,      data |-> DataApproveDirty],
       [owner |-> PayerHex,       contract |-> UsdtHex,      data |-> DataStrangerTrail] >>

RawOf(i) == buildFakeProtobuf(SignedTxs[i].owner, SignedTxs[i].contract,
                              SignedTxs[i].data)

\* the signature a key makes over signed transaction i: 32-byte r, 32-byte s,
\* 1-byte recovery id.  r stands for the key and s for the signed digest.
SignatureOf(k, i) ==
    Rep(KeyChar(k), 64) \o padStart(toString16(i), 64) \o <<"1", "b">>

\* every signature that exists: who signed, over which digest
Signatures ==
    { [signature |-> SignatureOf(k, i),
       digest    |-> sha256(BufferFromHex(RawOf(i))),
       signer    |-> KeyHex(k)] : k \in Keys, i \in 1..Len(SignedTxs) }

\* tw.utils.crypto.ecRecover(messageBytes, {r, s, v}): the hex address of the
\* key that made (r, s) over exactly these message bytes; over any other
\* bytes the recovery gives an address nobody holds; a recovery id that is
\* none of 0, 1, 27, 28 makes it throw.
RecoveryIds == { <<"0", "0">>, <<"0", "1">>, <<"1", "b">>, <<"1", "c">> }
ecRecover(messageBytes, r, s, v) ==
    LET made == { e \in Signatures :
                    /\ e.digest = messageBytes
                    /\ e.signature = r \o s \o v }
    IN  IF v \notin RecoveryIds THEN [threw |-> TRUE, hex |-> <<>>]
        ELSE IF made # {} THEN [threw |-> FALSE, hex |-> (CHOOSE e \in made : TRUE).signer]
        ELSE [threw |-> FALSE, hex |-> GarbageHex]

\* ------------------------------------------------------------------------
\* toFacilitatorTronSigner
\* ------------------------------------------------------------------------
TRON_MAINNET == "tron:27Lqcw"
TRON_SHASTA  == "tron:4oPwXB"
TRON_NILE    == "tron:6FhfKq"
\* the networks TRON_RPC_URLS has an endpoint for
TRON_RPC_URLS == {TRON_MAINNET, TRON_SHASTA, TRON_NILE}

\* an absent parameters.amount
Undefined == -1
NoParams == [to |-> <<>>, spender |-> <<>>, amount |-> Undefined]

\* a rejected decode: the thrown error, and no field of a decoded record
DecodeError(err) ==
    [ok |-> FALSE, error |-> err, txID |-> <<>>, contractType |-> "",
     contractAddress |-> <<>>, functionSelector |-> <<>>,
     parameters |-> NoParams, ownerAddress |-> <<>>, expiration |-> 0]

\* the DecodedTronTransaction (rawTransaction, which nothing reads, is left out;
\* parameters.amount is the integer that the decimal string spells)
Decoded(computedTxID, contractType, contractAddress, functionSelector, params, ownerAddress, expiration) ==
    [ok |-> TRUE, error |-> "", txID |-> computedTxID, contractType |-> contractType,
     contractAddress |-> contractAddress,
     functionSelector |-> functionSelector, parameters |-> params,
     ownerAddress |-> ownerAddress, expiration |-> expiration]

\* mutant: the padding of the address slot is not looked at
DecodeCall_PaddingUnchecked(computedTxID, contractType, contractAddress, ownerAddress, data, expiration) ==
    LET functionSelector == substring(data, 0, 8)
        addressPadding   == substring(data, 8, 32)
        address == fromHex(Hex41 \o substring(data, 32, 72))
        amount  == BigIntHex(substring(data, 72, 136))
    IN  IF ~IsHex(data) THEN DecodeError("data_non_hex")
        ELSE IF functionSelector = TRANSFER THEN
            IF Len(data) < 136 THEN DecodeError("transfer_data_too_short")
            ELSE Decoded(computedTxID, contractType, contractAddress,
                         functionSelector,
                         [to |-> address, spender |-> <<>>, amount |-> amount],
                         ownerAddress, expiration)
        ELSE IF functionSelector = APPROVE THEN
            IF Len(data) < 136 THEN DecodeError("approve_data_too_short")
            ELSE Decoded(computedTxID, contractType, contractAddress,
                         functionSelector,
                         [to |-> <<>>, spender |-> address, amount |-> amount],
                         ownerAddress, expiration)
        ELSE Decoded(computedTxID, contractType, contractAddress,
                     functionSelector, NoParams, ownerAddress, expiration)

\* mutant: the amount is read one character short of its 32-byte slot
DecodeCall_AmountSlotShort(computedTxID, contractType, contractAddress, ownerAddress, data, expiration) ==
    LET functionSelector == substring(data, 0, 8)
        addressPadding   == substring(data, 8, 32)
        address == fromHex(Hex41 \o substring(data, 32, 72))
        amount  == BigIntHex(substring(data, 72, 135))
    IN  IF ~IsHex(data) THEN DecodeError("data_non_hex")
        ELSE IF functionSelector = TRANSFER THEN
            IF Len(data) < 136 THEN DecodeError("transfer_data_too_short")
            ELSE IF ~IsAllZero(addressPadding)
                 THEN DecodeError("transfer_nonzero_padding")
            ELSE Decoded(computedTxID, contractType, contractAddress,
                         functionSelector,
                         [to |-> address, spender |-> <<>>, amount |-> amount],
                         ownerAddress, expiration)
        ELSE IF functionSelector = APPROVE THEN
            IF Len(data) < 136 THEN DecodeError("approve_data_too_short")
            ELSE IF ~IsAllZero(addressPadding)
                 THEN DecodeError("approve_nonzero_padding")
            ELSE Decoded(computedTxID, contractType, contractAddress,
                         functionSelector,
                         [to |-> <<>>, spender |-> address, amount |-> amount],
                         ownerAddress, expiration)
        ELSE Decoded(computedTxID, contractType, contractAddress,
                     functionSelector, NoParams, ownerAddress, expiration)

\* the ABI part of decodeTransaction: selector, shape, padding, parameters
DecodeCall(computedTxID, contractType, contractAddress, ownerAddress, data, expiration) ==
    LET functionSelector == substring(data, 0, 8)
        addressPadding   == substring(data, 8, 32)
        address == fromHex(Hex41 \o substring(data, 32, 72))
        amount  == BigIntHex(substring(data, 72, 136))
    IN  IF ~IsHex(data) THEN DecodeError("data_non_hex")
        ELSE IF functionSelector = TRANSFER THEN
            IF Len(data) < 136 THEN DecodeError("transfer_data_too_short")
            ELSE IF ~IsAllZero(addressPadding)
                 THEN DecodeError("transfer_nonzero_padding")
            ELSE Decoded(computedTxID, contractType, contractAddress,
                         functionSelector,
                         [to |-> address, spender |-> <<>>, amount |-> amount],
                         ownerAddress, expiration)
        ELSE IF functionSelector = APPROVE THEN
            IF Len(data) < 136 THEN DecodeError("approve_data_too_short")
            ELSE IF ~IsAllZero(addressPadding)
                 THEN DecodeError("approve_nonzero_padding")
            ELSE Decoded(computedTxID, contractType, contractAddress,
                         functionSelector,
                         [to |-> <<>>, spender |-> address, amount |-> amount],
                         ownerAddress, expiration)
        ELSE Decoded(computedTxID, contractType, contractAddress,
                     functionSelector, NoParams, ownerAddress, expiration)

\* mutant: only the call data of the mirror is looked up in the signed bytes
IntegrityCheck_DataOnly(rawDataHex, value) ==
    IF ~includes(toLowerCase(rawDataHex), toLowerCase(value.data))
        THEN "integrity_data"
    ELSE ""

\* the mirror/raw consistency part of decodeTransaction
IntegrityCheck(rawDataHex, value) ==
    LET rawDataHexLower == toLowerCase(rawDataHex)
    IN  IF ~includes(rawDataHexLower, toLowerCase(value.data))
            THEN "integrity_data"
        ELSE IF ~includes(rawDataHexLower, toLowerCase(value.contract_address))
            THEN "integrity_contract_address"
        ELSE IF ~includes(rawDataHexLower, toLowerCase(value.owner_address))
            THEN "integrity_owner_address"
        ELSE ""

\* mutant: the claimed txID is not compared with the recomputed hash
TxIDMatches_Unchecked(computedTxID, claimedTxID) == TRUE

\* computedTxID !== tx.txID, negated
TxIDMatches(computedTxID, claimedTxID) == computedTxID = claimedTxID

\* mutant: the recovered signer is not compared with the owner
SignerIsOwner_Unchecked(recoveredBase58, ownerAddress) == TRUE

\* recoveredBase58 !== ownerAddress, negated
SignerIsOwner(recoveredBase58, ownerAddress) == recoveredBase58 = ownerAddress

\* one run of decodeTransaction: its outcome and the calls it made on the
\* chain client (tw.utils.crypto.sha256, tw.utils.crypto.ecRecover,
\* tw.address.fromHex), in order
Ran(outcome, client) == [outcome |-> outcome, client |-> client]

\* decodeTransaction from the recomputation of the txID on (steps 3 to 5,
\* integrity and ABI decoding), for an envelope whose signature list and
\* raw_data_hex are well formed
decodeFromHash(tx, network) ==
    LET computedTxID == sha256(BufferFromHex(tx.raw_data_hex))
        sigBytes  == toLowerCase(tx.signature[1])
        recovered == ecRecover(computedTxID, substring(sigBytes, 0, 64),
                               substring(sigBytes, 64, 128),
                               substring(sigBytes, 128, 130))
        recoveredBase58 == fromHex(recovered.hex)
        rawData == tx.raw_data
        hashed    == << "sha256" >>
        recovery  == << "sha256", "ecRecover" >>
        signer    == << "sha256", "ecRecover", "fromHex" >>
        addresses == << "sha256", "ecRecover", "fromHex", "fromHex", "fromHex" >>
    IN  IF ~TxIDMatches(computedTxID, tx.txID)
            THEN Ran(DecodeError("txid_mismatch"), hashed)
        ELSE IF recovered.threw
            THEN Ran(DecodeError("signature_recovery_failed"), recovery)
        ELSE IF ~rawData.has_contract THEN Ran(DecodeError("missing_contract"), signer)
        ELSE IF Len(rawData.contract) = 0
            THEN Ran(DecodeError("empty_contract_array"), signer)
        ELSE
        LET value == rawData.contract[1]
            contractType == value.type
            contractAddress == fromHex(value.contract_address)
            ownerAddress == fromHex(value.owner_address)
            integrity == IntegrityCheck(tx.raw_data_hex, value)
            call == DecodeCall(computedTxID, contractType, contractAddress,
                               ownerAddress, value.data, rawData.expiration)
        IN  IF contractType # "TriggerSmartContract"
                THEN Ran(DecodeError("unsupported_contract_type"), signer)
            ELSE IF ~SignerIsOwner(recoveredBase58, ownerAddress)
                THEN Ran(DecodeError("signature_owner_mismatch"), addresses)
            ELSE IF Len(value.data) < 8
                THEN Ran(DecodeError("malformed_data"), addresses)
            ELSE IF integrity # "" THEN Ran(DecodeError(integrity), addresses)
            ELSE IF call.ok /\ call.functionSelector \in {TRANSFER, APPROVE}
                THEN Ran(call, Append(addresses, "fromHex"))
            ELSE Ran(call, addresses)

\* mutant: the txID is recomputed and compared before the signatures are
\* looked at
decodeSteps_HashFirst(tx, network) ==
    IF network \notin TRON_RPC_URLS THEN Ran(DecodeError("no_rpc_url"), <<>>)
    ELSE IF ~tx.json THEN Ran(DecodeError("invalid_format"), <<>>)
    ELSE IF Len(tx.raw_data_hex) = 0 THEN Ran(DecodeError("missing_raw_data_hex"), <<>>)
    ELSE IF ~IsHex(tx.raw_data_hex) THEN Ran(DecodeError("raw_data_hex_non_hex"), <<>>)
    ELSE IF ~TxIDMatches(sha256(BufferFromHex(tx.raw_data_hex)), tx.txID)
        THEN Ran(DecodeError("txid_mismatch"), << "sha256" >>)
    ELSE IF Len(tx.signature) = 0
        THEN Ran(DecodeError("missing_signature"), << "sha256" >>)
    ELSE IF \E n \in 1..Len(tx.signature) : ~IsSignatureFormat(tx.signature[n])
        THEN Ran(DecodeError("malformed_signature"), << "sha256" >>)
    ELSE decodeFromHash(tx, network)

\* decodeTransaction(signedTxHex, network).  tx is the parsed JSON (tx.json is
\* FALSE when JSON.parse throws); a contract entry carries its
\* parameter.value fields directly.
decodeSteps(tx, network) ==
    IF network \notin TRON_RPC_URLS THEN Ran(DecodeError("no_rpc_url"), <<>>)
    ELSE IF ~tx.json THEN Ran(DecodeError("invalid_format"), <<>>)
    ELSE IF Len(tx.signature) = 0 THEN Ran(DecodeError("missing_signature"), <<>>)
    ELSE IF \E n \in 1..Len(tx.signature) : ~IsSignatureFormat(tx.signature[n])
        THEN Ran(DecodeError("malformed_signature"), <<>>)
    ELSE IF Len(tx.raw_data_hex) = 0 THEN Ran(DecodeError("missing_raw_data_hex"), <<>>)
    ELSE IF ~IsHex(tx.raw_data_hex) THEN Ran(DecodeError("raw_data_hex_non_hex"), <<>>)
    ELSE decodeFromHash(tx, network)

\* what decodeTransaction returns or throws
decodeTransaction(tx, network) == decodeSteps(tx, network).outcome

\* getAddresses(): the facilitator's own operating addresses
getAddresses == { fromHex(FacilitatorHex) }

\* Buffer.from(message, "hex").toString("utf8") on the messages nodes send:
\* hex decodes to the text it spells, text that is not hex decodes to nothing
HexDupTransaction == "447570207472616e73616374696f6e2e"
Utf8FromHex(message) ==
    IF message = HexDupTransaction THEN "Dup transaction." ELSE ""

\* mutant: the node's answer is taken as accepted without looking at its flag
broadcastTransaction_FlagUnchecked(signedTx, result) ==
    IF ~signedTx.json
        THEN [threw |-> TRUE, txID |-> <<>>,
              error |-> "Invalid transaction format for broadcast"]
    ELSE IF result.threw THEN [threw |-> TRUE, txID |-> <<>>, error |-> result.message]
    ELSE [threw |-> FALSE,
          txID |-> IF Len(result.txid) > 0 THEN result.txid ELSE signedTx.txID,
          error |-> ""]

\* mutant: a broadcast refused as a duplicate counts as sent
broadcastTransaction_DuplicateIsSent(signedTx, result) ==
    IF ~signedTx.json
        THEN [threw |-> TRUE, txID |-> <<>>,
              error |-> "Invalid transaction format for broadcast"]
    ELSE IF result.threw THEN [threw |-> TRUE, txID |-> <<>>, error |-> result.message]
    ELSE IF result.result = TRUE \/ result.code \in {"SUCCESS", "DUP_TRANSACTION_ERROR"}
        THEN [threw |-> FALSE,
              txID |-> IF Len(result.txid) > 0 THEN result.txid ELSE signedTx.txID,
              error |-> ""]
    ELSE [threw |-> TRUE, txID |-> <<>>,
          error |-> "Broadcast failed: " \o
                    (IF result.message # "" THEN Utf8FromHex(result.message)
                     ELSE IF result.code # "" THEN result.code
                     ELSE "Unknown broadcast error")]

\* broadcastTransaction after the node answered sendRawTransaction(signedTx):
\* the transaction id, or the thrown error
broadcastTransaction(signedTx, result) ==
    IF ~signedTx.json
        THEN [threw |-> TRUE, txID |-> <<>>,
              error |-> "Invalid transaction format for broadcast"]
    ELSE IF result.threw THEN [threw |-> TRUE, txID |-> <<>>, error |-> result.message]
    ELSE IF result.result = TRUE \/ result.code = "SUCCESS"
        THEN [threw |-> FALSE,
              txID |-> IF Len(result.txid) > 0 THEN result.txid ELSE signedTx.txID,
              error |-> ""]
    ELSE [threw |-> TRUE, txID |-> <<>>,
          error |-> "Broadcast failed: " \o
                    (IF result.message # "" THEN Utf8FromHex(result.message)
                     ELSE IF result.code # "" THEN result.code
                     ELSE "Unknown broadcast error")]

maxAttempts == 30

\* the errors the polling loop raises itself (" -- " stands for the dash that
\* joins the node's resMessage)
ExecutionFailed(txInfo) ==
    "Transaction on-chain but execution failed: " \o txInfo.result \o
    (IF txInfo.resMessage # "" THEN " -- " \o txInfo.resMessage ELSE "")

MissingReceipt ==
    "Transaction found on-chain but missing execution receipt after multiple checks"

\* mutant: any receipt result confirms the transaction
ConfirmAttempt_AnyReceipt(attemptNo, txInfo) ==
    IF ~txInfo.threw /\ txInfo.id /\ txInfo.result # ""
        THEN [outcome |-> "return", error |-> ""]
    ELSE IF txInfo.threw /\ txInfo.message = "upstream: execution failed"
        THEN [outcome |-> "throw", error |-> txInfo.message]
    ELSE IF ~txInfo.threw /\ txInfo.id /\ attemptNo > 5
        THEN [outcome |-> "throw", error |-> MissingReceipt]
    ELSE IF txInfo.threw /\ attemptNo = maxAttempts - 1
        THEN [outcome |-> "throw", error |-> txInfo.message]
    ELSE [outcome |-> "continue", error |-> ""]

\* mutant: a failed receipt is polled again like a missing one
ConfirmAttempt_RetryFailed(attemptNo, txInfo) ==
    IF ~txInfo.threw /\ txInfo.id /\ txInfo.result = "SUCCESS"
        THEN [outcome |-> "return", error |-> ""]
    ELSE IF txInfo.threw /\ txInfo.message = "upstream: execution failed"
        THEN [outcome |-> "throw", error |-> txInfo.message]
    ELSE IF ~txInfo.threw /\ txInfo.id /\ txInfo.result = "" /\ attemptNo > 5
        THEN [outcome |-> "throw", error |-> MissingReceipt]
    ELSE IF txInfo.threw /\ attemptNo = maxAttempts - 1
        THEN [outcome |-> "throw", error |-> txInfo.message]
    ELSE [outcome |-> "continue", error |-> ""]

\* one iteration of the polling loop of confirmTransaction, given the answer
\* txInfo of getTransactionInfo: "return", "throw" (with the error) or
\* "continue" (sleep, then the next iteration)
ConfirmAttempt(attemptNo, txInfo) ==
    LET thrown ==
            IF txInfo.threw THEN txInfo.message
            ELSE IF txInfo.id /\ txInfo.result # "SUCCESS" /\ txInfo.result # ""
                THEN ExecutionFailed(txInfo)
            ELSE IF txInfo.id /\ txInfo.result = "" /\ attemptNo > 5
                THEN MissingReceipt
            ELSE ""
        \* e.message.includes("execution failed") ||
        \* e.message.includes("missing execution receipt")
        ownError ==
            \/ ~txInfo.threw
            \/ thrown = "upstream: execution failed"
    IN  IF ~txInfo.threw /\ txInfo.id /\ txInfo.result = "SUCCESS"
            THEN [outcome |-> "return", error |-> ""]
        ELSE IF thrown # "" /\ ownError THEN [outcome |-> "throw", error |-> thrown]
        ELSE IF thrown # "" /\ attemptNo = maxAttempts - 1
            THEN [outcome |-> "throw", error |-> thrown]
        ELSE [outcome |-> "continue", error |-> ""]

ConfirmTimeout == "Transaction confirmation timeout after 90s"

\* ------------------------------------------------------------------------
\* The payment proofs and requirements presented to the facilitator
\* ------------------------------------------------------------------------
KeyOfHex(h) == CHOOSE k \in Keys : KeyHex(k) = h

\* the JSON of signed transaction i, signed by key k, with the given mirror
\* (raw_data) fields, claimed id and expiration
Envelope(i, k, mirror, claimedTxID, expiration) ==
    [json |-> TRUE,
     txID |-> claimedTxID,
     raw_data_hex |-> RawOf(i),
     signature |-> << SignatureOf(k, i) >>,
     raw_data |-> [has_contract |-> TRUE,
                   contract |-> << [type |-> "TriggerSmartContract",
                                    owner_address |-> mirror.owner,
                                    contract_address |-> mirror.contract,
                                    data |-> mirror.data] >>,
                   expiration |-> expiration]]

TxIDOf(i) == sha256(BufferFromHex(RawOf(i)))

\* what TronWeb produces: the mirror restates the signed bytes
Honest(i, expiration) ==
    Envelope(i, KeyOfHex(SignedTxs[i].owner), SignedTxs[i], TxIDOf(i), expiration)

\* the mirror of signed transaction i with its contract address in capitals
CapitalContract(i) ==
    Envelope(i, KeyOfHex(SignedTxs[i].owner),
             [SignedTxs[i] EXCEPT !.contract = Capitals(SignedTxs[i].contract)],
             TxIDOf(i), 2)

HonestEnvelopes ==
    { Honest(i, 2) : i \in 1..Len(SignedTxs) } \cup { Honest(1, e) : e \in {0, 1} }
        \cup { CapitalContract(3) }
        \* call data in capitals: of a transfer, and of a transfer cut short
        \cup { [Honest(i, 2) EXCEPT !.raw_data.contract[1].data = Capitals(@)] :
                   i \in {3, 9} }

\* the mirror edited after signing; raw bytes, txID and signature untouched
TamperedMirrors ==
    { \* amount raised from 1 to 2 in the mirror
      Envelope(2, "payer", [SignedTxs[2] EXCEPT !.data = DataPay2], TxIDOf(2), 2),
      \* mirror call data replaced by the trailing bytes of the signed call data
      Envelope(6, "payer", [SignedTxs[6] EXCEPT !.data = DataPay2], TxIDOf(6), 2),
      \* junk token in the signed bytes, USDT in the mirror
      Envelope(7, "payer", [SignedTxs[7] EXCEPT !.contract = UsdtHex], TxIDOf(7), 2),
      \* mirror contract replaced by another address that occurs in the bytes
      Envelope(1, "payer", [SignedTxs[1] EXCEPT !.contract = PayerHex], TxIDOf(1), 2),
      \* mirror owner replaced by a richer address
      Envelope(1, "payer", [SignedTxs[1] EXCEPT !.owner = FacilitatorHex], TxIDOf(1), 2),
      \* mirror owner replaced by the address of the key that signed
      Envelope(1, "mallory", [SignedTxs[1] EXCEPT !.owner = MalloryHex], TxIDOf(1), 2),
      \* a transfer to a stranger in the signed bytes, the trailing transfer to
      \* the merchant in the mirror
      Envelope(14, "payer", [SignedTxs[14] EXCEPT !.data = DataPay2], TxIDOf(14), 2) }

ForgedEnvelopes ==
    { \* signed by a key that is not the owner's
      Envelope(1, "mallory", SignedTxs[1], TxIDOf(1), 2),
      \* the owner's signature over another transaction, reused
      [Honest(1, 2) EXCEPT !.signature = << SignatureOf("payer", 2) >>],
      \* claimed txID is not the hash of the bytes
      Envelope(1, "payer", SignedTxs[1], TxIDOf(2), 2),
      \* signed by another key and claiming the id of other bytes
      Envelope(1, "mallory", SignedTxs[1], TxIDOf(2), 2),
      \* not JSON at all
      [Honest(1, 2) EXCEPT !.json = FALSE] }

\* a character outside [0-9a-fA-F] put in place of the last one
WithNonHex(str) == SubSeq(str, 1, Len(str) - 1) \o << "g" >>

\* signature lists that are not what a wallet produces
SignatureLists ==
    { \* no signature at all
      [Honest(1, 2) EXCEPT !.signature = <<>>],
      \* 129 characters
      [Honest(1, 2) EXCEPT !.signature = << SubSeq(SignatureOf("payer", 1), 1, SigLen - 1) >>],
      \* 131 characters
      [Honest(1, 2) EXCEPT !.signature = << SignatureOf("payer", 1) \o << "0" >> >>],
      \* 130 characters, one of them not a hex digit
      [Honest(1, 2) EXCEPT !.signature = << WithNonHex(SignatureOf("payer", 1)) >>],
      \* the payer's signature followed by a malformed entry
      [Honest(1, 2) EXCEPT !.signature = << SignatureOf("payer", 1), Rep("0", 64) >>],
      \* malformed, and the claimed txID is not the hash of the bytes
      [Envelope(1, "payer", SignedTxs[1], TxIDOf(2), 2)
          EXCEPT !.signature = << Rep("a", 64) >>],
      \* malformed, and raw_data_hex is missing
      [Honest(1, 2) EXCEPT !.signature = << Rep("a", 64) >>, !.raw_data_hex = <<>>],
      \* the payer's signature followed by another well-formed one
      [Honest(3, 2) EXCEPT !.signature = << SignatureOf("payer", 3),
                                            SignatureOf("mallory", 3) >>],
      \* the payer's signature in capitals
      [Honest(3, 2) EXCEPT !.signature = << Capitals(SignatureOf("payer", 3)) >>] }

\* envelope t with field f of its first contract entry set to v
WithValue(t, f, v) == [t EXCEPT !.raw_data.contract[1][f] = v]

\* envelopes that fail one decode check, alone or together with a later one
BrokenEnvelopes ==
    { \* raw_data_hex missing
      [Honest(1, 2) EXCEPT !.raw_data_hex = <<>>],
      \* raw_data_hex with a character that is not a hex digit
      [Honest(1, 2) EXCEPT !.raw_data_hex = WithNonHex(RawOf(1))],
      \* recovery id 0xff
      [Honest(1, 2) EXCEPT !.signature =
          << SubSeq(SignatureOf("payer", 1), 1, 128) \o << "f", "f" >> >>],
      \* recovery id 0xff, and the claimed txID is not the hash of the bytes
      [Envelope(1, "payer", SignedTxs[1], TxIDOf(2), 2) EXCEPT !.signature =
          << SubSeq(SignatureOf("payer", 1), 1, 128) \o << "f", "f" >> >>],
      \* no raw_data.contract
      [Honest(1, 2) EXCEPT !.raw_data.has_contract = FALSE],
      \* no raw_data.contract, signed by a key that is not the owner's
      [Envelope(1, "mallory", SignedTxs[1], TxIDOf(1), 2)
          EXCEPT !.raw_data.has_contract = FALSE],
      \* raw_data.contract is []
      [Honest(1, 2) EXCEPT !.raw_data.contract = <<>>],
      \* a native transfer
      WithValue(Honest(1, 2), "type", "TransferContract"),
      \* a native transfer signed by a key that is not the owner's
      WithValue(Envelope(1, "mallory", SignedTxs[1], TxIDOf(1), 2),
                "type", "TransferContract"),
      \* four characters of call data
      WithValue(Honest(1, 2), "data", SubSeq(DataPay2, 1, 4)),
      \* no call data
      WithValue(Honest(1, 2), "data", <<>>),
      \* four characters of call data, signed by a key that is not the owner's
      WithValue(Envelope(1, "mallory", SignedTxs[1], TxIDOf(1), 2),
                "data", SubSeq(DataPay2, 1, 4)),
      \* four characters of call data that do not occur in the signed bytes
      WithValue(Honest(1, 2), "data", << "a", "9", "0", "6" >>),
      \* four characters of call data, one not a hex digit
      WithValue(Honest(1, 2), "data", << "a", "9", "0", "g" >>),
      \* call data with a character that is not a hex digit
      WithValue(Honest(1, 2), "data", WithNonHex(DataPay2)),
      \* a transfer selector alone with padding, absent from the signed bytes
      WithValue(Honest(1, 2), "data", TRANSFER \o Rep("0", 40)),
      \* mirror owner and mirror data both replaced, signed by the new owner
      WithValue(Envelope(1, "mallory", [SignedTxs[1] EXCEPT !.owner = MalloryHex],
                         TxIDOf(1), 2), "data", DataPay1) }

Envelopes ==
    HonestEnvelopes \cup TamperedMirrors \cup ForgedEnvelopes \cup SignatureLists
        \cup BrokenEnvelopes

\* the fields of the signed bytes as the chain reads them (the layout of
\* buildFakeProtobuf): owner, contract, call data
SignedFields(rawDataHex) ==
    [owner    |-> substring(rawDataHex, 6, 48),
     contract |-> substring(rawDataHex, 48, 90),
     data     |-> substring(rawDataHex, 90, Len(rawDataHex) - 2)]

Payloads ==
    { [accepted |-> [scheme |-> sn[1], network |-> sn[2]],
       payload  |-> [method |-> m, signedTransaction |-> tx, from |-> f]] :
        sn \in { <<"exact", TRON_MAINNET>>, <<"upto", TRON_MAINNET>>,
                 <<"exact", TRON_SHASTA>> },
        m \in {"", "approve"},
        tx \in Envelopes,
        f \in { fromHex(PayerHex), fromHex(FacilitatorHex) } }

Requirements ==
    { [scheme |-> s, network |-> TRON_MAINNET, asset |-> fromHex(UsdtHex),
       payTo |-> fromHex(MerchantHex), amount |-> a] :
        s \in {"exact", "upto"}, a \in {1, 2} }

\* ------------------------------------------------------------------------
\* Oracle answers (chain state is outside the core: any answer may come)
\* ------------------------------------------------------------------------
\* getTokenBalance: a balance, or Threw
Unasked == -1
Threw   == -2
BalanceAnswers == {0, 2, Threw}
\* estimateEnergy: energy units, or Threw
EnergyAnswers == {65000, 238095, 238096, 300000, Threw}
\* sendRawTransaction
NodeTxId == <<"n", "o", "d", "e">>
BroadcastResults ==
    { [threw |-> FALSE, result |-> TRUE,  code |-> "", txid |-> NodeTxId, message |-> ""],
      [threw |-> FALSE, result |-> FALSE, code |-> "SUCCESS", txid |-> <<>>, message |-> ""],
      [threw |-> FALSE, result |-> FALSE, code |-> "DUP_TRANSACTION_ERROR", txid |-> <<>>,
       message |-> HexDupTransaction],
      [threw |-> FALSE, result |-> FALSE, code |-> "SIGERROR", txid |-> <<>>, message |-> ""],
      [threw |-> FALSE, result |-> FALSE, code |-> "", txid |-> <<>>, message |-> ""],
      [threw |-> FALSE, result |-> FALSE, code |-> "CONTRACT_VALIDATE_ERROR", txid |-> <<>>,
       message |-> "Contract validate error"],
      [threw |-> TRUE,  result |-> FALSE, code |-> "", txid |-> <<>>,
       message |-> "ECONNRESET"] }
\* getTransactionInfo: not indexed yet, indexed without receipt, indexed with
\* a receipt result, or a transport error
ReceiptResults == {"SUCCESS", "REVERT", "OUT_OF_ENERGY", "OUT_OF_TIME", "OTHER_ERROR"}
TxInfos ==
    { [threw |-> FALSE, id |-> FALSE, result |-> "", resMessage |-> "", message |-> ""],
      [threw |-> FALSE, id |-> TRUE,  result |-> "", resMessage |-> "", message |-> ""],
      [threw |-> TRUE,  id |-> FALSE, result |-> "", resMessage |-> "",
       message |-> "ECONNRESET"],
      [threw |-> TRUE,  id |-> FALSE, result |-> "", resMessage |-> "",
       message |-> "upstream: execution failed"],
      [threw |-> FALSE, id |-> TRUE,  result |-> "REVERT",
       resMessage |-> "REVERT opcode executed", message |-> ""] }
    \cup { [threw |-> FALSE, id |-> TRUE, result |-> r, resMessage |-> "", message |-> ""] :
             r \in ReceiptResults }

\* ------------------------------------------------------------------------
\* ExactTronScheme: state
\* ------------------------------------------------------------------------
MaxNow   == 2
MaxCalls == 2

VARIABLES
    payload,         \* the PaymentPayload presented
    requirements,    \* the PaymentRequirements presented
    config,          \* this.config
    clock,           \* Date.now()
    calls,           \* verify()/settle() calls started so far
    accepted,        \* an earlier verify() of this payload returned isValid
    op,              \* the call in progress: "none", "verify", "settle"
    pc,              \* where the call in progress is
    invoked,         \* signer methods invoked by the call in progress, in order
    queries,         \* getTransactionInfo queries issued by the call in progress
    decoded,         \* verify: decoded
    now,             \* verify: now
    balance,         \* verify: the getTokenBalance answer
    estimatedEnergy, \* verify: the estimateEnergy answer
    verification,    \* the VerifyResponse
    redecoded,       \* settle: outcome of the second decodeTransaction
    txID,            \* settle: txID
    attempt,         \* confirmTransaction: attempt
    polled,          \* confirmTransaction: the last getTransactionInfo answer
    broadcastResult, \* broadcastTransaction: the sendRawTransaction answer
    settlement,      \* the SettleResponse
    previous,        \* history, for a verify() in progress: what the verify() before it read and answered
    deployed,        \* EruditePayV2: the constructor has run and not reverted
    owner,           \* EruditePayV2.owner
    treasury,        \* EruditePayV2.treasury
    feeBasisPoints,  \* EruditePayV2.feeBasisPoints
    paused,          \* EruditePayV2.paused
    isFacilitator,   \* EruditePayV2.isFacilitator: the addresses mapped to true
    usedNonces,      \* EruditePayV2.usedNonces: the (payer, nonce) pairs mapped to true
    balanceOf,       \* the token's balances
    allowance,       \* the token's allowances granted to the contract, by holder
    receipt,         \* history: the last transaction sent to the contract and the state it found
    paid,            \* history: the (payer, nonce) pairs of the payments executed, in order
    past,            \* history: the addresses that have been facilitators, and whether the contract has been paused
    ops,             \* history: transactions sent to the contract so far
    parked,          \* the calls suspended at an await while another call runs: their frames
    ledger,          \* the signed transactions the ledger has accepted for broadcast
    successes        \* history: settle() calls that returned success = true

schemeVars == << payload, requirements, config, clock, calls, accepted, op, pc,
                 invoked, queries, decoded, now, balance, estimatedEnergy,
                 verification, redecoded, txID, attempt, polled, broadcastResult,
                 settlement, previous >>

contractVars == << deployed, owner, treasury, feeBasisPoints, paused, isFacilitator,
                   usedNonces, balanceOf, allowance, receipt, paid, past, ops >>

callVars == << parked, ledger, successes >>

vars == << schemeVars, contractVars, callVars >>

\* one call at a time, and a ledger that is not looked at
NoneParked ==
    /\ parked = << >>
    /\ ledger = {}
    /\ successes = 0

\* no wrapper contract is involved
NoContract ==
    /\ deployed = FALSE
    /\ owner = "0"
    /\ treasury = "0"
    /\ feeBasisPoints = 0
    /\ paused = FALSE
    /\ isFacilitator = {}
    /\ usedNonces = {}
    /\ balanceOf = << >>
    /\ allowance = << >>
    /\ receipt = << >>
    /\ paid = << >>
    /\ past = << >>
    /\ ops = 0

NoDecode == DecodeError("none")
NoVerification ==
    [isValid |-> FALSE, invalidReason |-> "none", invalidMessage |-> "", payer |-> <<>>]
NoSettlement ==
    [success |-> FALSE, transaction |-> <<>>, network |-> "", errorReason |-> "none",
     errorMessage |-> "", payer |-> <<>>]
\* no verify() has returned yet
NoPrevious ==
    [now |-> 0, balance |-> Unasked, estimatedEnergy |-> Unasked,
     verification |-> NoVerification]
NoBroadcastResult ==
    [threw |-> FALSE, result |-> FALSE, code |-> "", txid |-> <<>>, message |-> "none"]
NoTxInfo ==
    [threw |-> FALSE, id |-> FALSE, result |-> "", resMessage |-> "", message |-> "none"]

\* constructor(signer, config)
DefaultConfig ==
    [useWrapperContract |-> FALSE, maxEnergyFeeSun |-> 100000000,
     feeDelegation |-> FALSE]

\* the configurations presented: the default, and a ceiling that is exactly
\* the fee of the fallback estimate of 65000 energy
Configs ==
    { DefaultConfig, [DefaultConfig EXCEPT !.maxEnergyFeeSun = 65000 * 420] }

\* ------------------------------------------------------------------------
\* ExactTronScheme.verify
\* ------------------------------------------------------------------------
isSignedTransactionPayload(p) == p.method = ""

Reject(reason, message, payer) ==
    [isValid |-> FALSE, invalidReason |-> reason, invalidMessage |-> message,
     payer |-> payer]
Valid(payer) ==
    [isValid |-> TRUE, invalidReason |-> "", invalidMessage |-> "", payer |-> payer]

\* steps 1-2 of verify: scheme, network, payload type ("" when all pass)
EntryChecks(p, req) ==
    IF p.accepted.scheme # "exact" \/ req.scheme # "exact" THEN "unsupported_scheme"
    ELSE IF p.accepted.network # req.network THEN "network_mismatch"
    ELSE IF ~isSignedTransactionPayload(p.payload) THEN "invalid_tron_payload_type"
    ELSE ""

\* BigInt(decoded.parameters.amount || "0")
txAmount(d) == IF d.parameters.amount = Undefined THEN 0 ELSE d.parameters.amount

\* mutant: the amount comparison is left out
DecodedChecks_AmountUnchecked(d, p, req) ==
    IF d.contractType # "TriggerSmartContract"
        THEN "invalid_tron_payload_not_smart_contract"
    ELSE IF d.functionSelector # TRANSFER THEN "invalid_tron_payload_not_transfer"
    ELSE IF d.contractAddress # req.asset THEN "invalid_tron_payload_asset_mismatch"
    ELSE IF d.parameters.to # req.payTo THEN "invalid_tron_payload_recipient_mismatch"
    ELSE IF d.ownerAddress # p.payload.from THEN "invalid_tron_payload_sender_mismatch"
    ELSE IF d.ownerAddress \in getAddresses
        THEN "invalid_tron_payload_facilitator_is_sender"
    ELSE ""

\* mutant: the amount is compared before the asset and the recipient
DecodedChecks_AmountBeforeAsset(d, p, req) ==
    IF d.contractType # "TriggerSmartContract"
        THEN "invalid_tron_payload_not_smart_contract"
    ELSE IF d.functionSelector # TRANSFER THEN "invalid_tron_payload_not_transfer"
    ELSE IF txAmount(d) < req.amount THEN "invalid_tron_payload_amount_insufficient"
    ELSE IF d.contractAddress # req.asset THEN "invalid_tron_payload_asset_mismatch"
    ELSE IF d.parameters.to # req.payTo THEN "invalid_tron_payload_recipient_mismatch"
    ELSE IF d.ownerAddress # p.payload.from THEN "invalid_tron_payload_sender_mismatch"
    ELSE IF d.ownerAddress \in getAddresses
        THEN "invalid_tron_payload_facilitator_is_sender"
    ELSE ""

\* mutant: the amount is compared after the sender checks
DecodedChecks_AmountAfterSender(d, p, req) ==
    IF d.contractType # "TriggerSmartContract"
        THEN "invalid_tron_payload_not_smart_contract"
    ELSE IF d.functionSelector # TRANSFER THEN "invalid_tron_payload_not_transfer"
    ELSE IF d.contractAddress # req.asset THEN "invalid_tron_payload_asset_mismatch"
    ELSE IF d.parameters.to # req.payTo THEN "invalid_tron_payload_recipient_mismatch"
    ELSE IF d.ownerAddress # p.payload.from THEN "invalid_tron_payload_sender_mismatch"
    ELSE IF d.ownerAddress \in getAddresses
        THEN "invalid_tron_payload_facilitator_is_sender"
    ELSE IF txAmount(d) < req.amount THEN "invalid_tron_payload_amount_insufficient"
    ELSE ""

\* mutant: the facilitator's own addresses are not excluded as senders
DecodedChecks_FacilitatorUnchecked(d, p, req) ==
    IF d.contractType # "TriggerSmartContract"
        THEN "invalid_tron_payload_not_smart_contract"
    ELSE IF d.functionSelector # TRANSFER THEN "invalid_tron_payload_not_transfer"
    ELSE IF d.contractAddress # req.asset THEN "invalid_tron_payload_asset_mismatch"
    ELSE IF d.parameters.to # req.payTo THEN "invalid_tron_payload_recipient_mismatch"
    ELSE IF txAmount(d) < req.amount THEN "invalid_tron_payload_amount_insufficient"
    ELSE IF d.ownerAddress # p.payload.from THEN "invalid_tron_payload_sender_mismatch"
    ELSE ""

\* mutant: the claimed sender is not compared with the decoded owner
DecodedChecks_SenderUnchecked(d, p, req) ==
    IF d.contractType # "TriggerSmartContract"
        THEN "invalid_tron_payload_not_smart_contract"
    ELSE IF d.functionSelector # TRANSFER THEN "invalid_tron_payload_not_transfer"
    ELSE IF d.contractAddress # req.asset THEN "invalid_tron_payload_asset_mismatch"
    ELSE IF d.parameters.to # req.payTo THEN "invalid_tron_payload_recipient_mismatch"
    ELSE IF txAmount(d) < req.amount THEN "invalid_tron_payload_amount_insufficient"
    ELSE IF d.ownerAddress \in getAddresses
        THEN "invalid_tron_payload_facilitator_is_sender"
    ELSE ""

\* mutant: the selector of the decoded call is not looked at
DecodedChecks_SelectorUnchecked(d, p, req) ==
    IF d.contractType # "TriggerSmartContract"
        THEN "invalid_tron_payload_not_smart_contract"
    ELSE IF d.contractAddress # req.asset THEN "invalid_tron_payload_asset_mismatch"
    ELSE IF d.parameters.to # req.payTo THEN "invalid_tron_payload_recipient_mismatch"
    ELSE IF txAmount(d) < req.amount THEN "invalid_tron_payload_amount_insufficient"
    ELSE IF d.ownerAddress # p.payload.from THEN "invalid_tron_payload_sender_mismatch"
    ELSE IF d.ownerAddress \in getAddresses
        THEN "invalid_tron_payload_facilitator_is_sender"
    ELSE ""

\* steps 4-9 of verify on a decoded transaction ("" when all pass)
DecodedChecks(d, p, req) ==
    IF d.contractType # "TriggerSmartContract"
        THEN "invalid_tron_payload_not_smart_contract"
    ELSE IF d.functionSelector # TRANSFER THEN "invalid_tron_payload_not_transfer"
    ELSE IF d.contractAddress # req.asset THEN "invalid_tron_payload_asset_mismatch"
    ELSE IF d.parameters.to # req.payTo THEN "invalid_tron_payload_recipient_mismatch"
    ELSE IF txAmount(d) < req.amount THEN "invalid_tron_payload_amount_insufficient"
    ELSE IF d.ownerAddress # p.payload.from THEN "invalid_tron_payload_sender_mismatch"
    ELSE IF d.ownerAddress \in getAddresses
        THEN "invalid_tron_payload_facilitator_is_sender"
    ELSE ""

\* mutant: the balance is fetched but not compared
InsufficientBalance_Never(balanceBigInt, requiredAmount) == FALSE

\* step 11 of verify: balanceBigInt < requiredAmount
InsufficientBalance(balanceBigInt, requiredAmount) == balanceBigInt < requiredAmount

\* mutant: a fee equal to the ceiling is refused
TooExpensive_AtCeiling(energy, maxEnergyFeeSun) == energy * 420 >= maxEnergyFeeSun

\* step 12 of verify: estimatedEnergy * 420 > this.config.maxEnergyFeeSun
TooExpensive(energy, maxEnergyFeeSun) == energy * 420 > maxEnergyFeeSun

\* mutant: a payload verify() has accepted once counts as expired afterwards
Expired_OnceAccepted(d, t) == accepted \/ (d.expiration # 0 /\ d.expiration < t)

\* step 10 of verify: decoded.expiration && decoded.expiration < now
Expired(d, t) == d.expiration # 0 /\ d.expiration < t

\* ------------------------------------------------------------------------
\* ExactTronScheme.settle
\* ------------------------------------------------------------------------
\* mutant: a rejection is reported under one generic reason
VerificationFailed_GenericReason(v) ==
    [success |-> FALSE, network |-> payload.accepted.network, transaction |-> <<>>,
     errorReason |-> "verification_failed",
     errorMessage |-> v.invalidMessage, payer |-> v.payer]

\* the result settle returns when verification rejected
VerificationFailed(v) ==
    [success |-> FALSE, network |-> payload.accepted.network, transaction |-> <<>>,
     errorReason |-> IF v.invalidReason = "" THEN "verification_failed"
                     ELSE v.invalidReason,
     errorMessage |-> v.invalidMessage, payer |-> v.payer]

\* mutant: the catch block reports the id the broadcast returned
SettleCaught_KeepsTxID(message) ==
    [success |-> FALSE, network |-> payload.accepted.network, transaction |-> txID,
     errorReason |-> "transaction_broadcast_failed", errorMessage |-> message,
     payer |-> verification.payer]

\* the result of settle's catch block
SettleCaught(message) ==
    [success |-> FALSE, network |-> payload.accepted.network, transaction |-> <<>>,
     errorReason |-> "transaction_broadcast_failed", errorMessage |-> message,
     payer |-> verification.payer]

Settled(id) ==
    [success |-> TRUE, network |-> payload.accepted.network, transaction |-> id,
     errorReason |-> "", errorMessage |-> "", payer |-> verification.payer]

\* mutant: settle broadcasts without decoding a second time
Conclude_SkipRedecode(o, v, inv) ==
    /\ verification' = v
    /\ IF o = "verify"
       THEN /\ pc' = "done"
            /\ invoked' = inv
            /\ UNCHANGED << settlement, redecoded >>
       ELSE IF ~v.isValid
       THEN /\ pc' = "done"
            /\ invoked' = inv
            /\ settlement' = [success |-> FALSE, network |-> payload.accepted.network,
                              transaction |-> <<>>, errorReason |-> v.invalidReason,
                              errorMessage |-> v.invalidMessage, payer |-> v.payer]
            /\ UNCHANGED redecoded
       ELSE /\ pc' = "broadcast"
            /\ invoked' = Append(inv, "broadcastTransaction")
            /\ UNCHANGED << settlement, redecoded >>

\* verify returns v to its caller o.  A verify() call is then done; settle()
\* goes on in the same turn: a rejection is returned, otherwise the signed
\* transaction is decoded a second time.
Conclude(o, v, inv) ==
    /\ verification' = v
    /\ IF o = "verify"
       THEN /\ pc' = "done"
            /\ invoked' = inv
            /\ UNCHANGED << settlement, redecoded >>
       ELSE IF ~v.isValid
       THEN /\ pc' = "done"
            /\ invoked' = inv
            /\ settlement' = VerificationFailed(v)
            /\ UNCHANGED redecoded
       ELSE /\ pc' = "redecoded"
            /\ invoked' = Append(inv, "decodeTransaction")
            /\ redecoded' = decodeTransaction(payload.payload.signedTransaction,
                                              requirements.network)
            /\ UNCHANGED settlement

\* no call is in progress and none has been made
NoCall ==
    /\ clock = 1
    /\ calls = 0
    /\ accepted = FALSE
    /\ op = "none"
    /\ pc = "idle"
    /\ invoked = <<>>
    /\ queries = 0
    /\ decoded = NoDecode
    /\ now = 0
    /\ balance = Unasked
    /\ estimatedEnergy = Unasked
    /\ verification = NoVerification
    /\ redecoded = NoDecode
    /\ txID = <<>>
    /\ attempt = 0
    /\ polled = NoTxInfo
    /\ broadcastResult = NoBroadcastResult
    /\ settlement = NoSettlement
    /\ previous = NoPrevious

\* verify reads this.config only at the cost check (step 12): the configured
\* ceiling is presented with the payloads that pass the checks before the
\* oracles are asked
ReachesOracles(p, r) ==
    /\ EntryChecks(p, r) = ""
    /\ LET d == decodeTransaction(p.payload.signedTransaction, r.network)
       IN  d.ok /\ DecodedChecks(d, p, r) = ""

Init ==
    /\ payload \in Payloads
    /\ requirements \in Requirements
    /\ config \in Configs
    /\ config # DefaultConfig => ReachesOracles(payload, requirements)
    /\ NoCall
    /\ NoContract
    /\ NoneParked

inputs == << payload, requirements, config >>

\* verify(payload, requirements) or settle(payload, requirements) is called:
\* scheme, network and payload type are checked and decodeTransaction runs
Start(o) ==
    /\ pc = "idle"
    /\ calls < MaxCalls
    /\ op' = o
    /\ calls' = calls + 1
    /\ LET pre == EntryChecks(payload, requirements)
       IN  IF pre # ""
           THEN /\ Conclude(o, Reject(pre, "", <<>>), <<>>)
                /\ UNCHANGED decoded
           ELSE /\ decoded' = decodeTransaction(payload.payload.signedTransaction,
                                                requirements.network)
                /\ invoked' = << "decodeTransaction" >>
                /\ pc' = "decoded"
                /\ UNCHANGED << verification, settlement, redecoded >>
    /\ previous' = IF o = "verify" THEN previous ELSE NoPrevious
    /\ UNCHANGED contractVars
    /\ UNCHANGED callVars
    /\ UNCHANGED << inputs, clock, accepted, queries, now, balance,
                    estimatedEnergy, txID, attempt, polled >>
    /\ UNCHANGED broadcastResult

\* verify resumes with the decode outcome: steps 3-10, then the balance query
VerifyChecks ==
    /\ pc = "decoded"
    /\ LET from == payload.payload.from
           failed == DecodedChecks(decoded, payload, requirements)
       IN  IF ~decoded.ok
           THEN /\ Conclude(op, Reject("invalid_tron_payload_decode_failed",
                                       decoded.error, from), invoked)
                /\ UNCHANGED now
           ELSE IF failed # ""
           THEN /\ Conclude(op, Reject(failed, "", from), invoked)
                /\ UNCHANGED now
           ELSE /\ now' = clock
                /\ IF Expired(decoded, clock)
                   THEN Conclude(op, Reject("invalid_tron_payload_expired", "", from),
                                 invoked)
                   ELSE /\ invoked' = Append(invoked, "getTokenBalance")
                        /\ pc' = "balance"
                        /\ UNCHANGED << verification, settlement, redecoded >>
    /\ UNCHANGED << inputs, clock, calls, accepted, op, queries, decoded, balance,
                    estimatedEnergy, txID, attempt, polled >>
    /\ UNCHANGED broadcastResult
    /\ UNCHANGED previous
    /\ UNCHANGED contractVars
    /\ UNCHANGED callVars

\* mutant: an error of the balance query is ignored
BalanceAnswer_FailOpen(b) ==
    /\ pc = "balance"
    /\ balance' = b
    /\ LET from == payload.payload.from
       IN  IF b # Threw /\ InsufficientBalance(b, requirements.amount)
           THEN Conclude(op, Reject("invalid_tron_payload_insufficient_balance", "",
                                    from), invoked)
           ELSE /\ invoked' = Append(invoked, "estimateEnergy")
                /\ pc' = "energy"
                /\ UNCHANGED << verification, settlement, redecoded >>
    /\ UNCHANGED << inputs, clock, calls, accepted, op, queries, decoded, now,
                    estimatedEnergy, txID, attempt, polled >>
    /\ UNCHANGED broadcastResult
    /\ UNCHANGED previous
    /\ UNCHANGED contractVars
    /\ UNCHANGED callVars

\* getTokenBalance answers: step 11, then the energy estimate is requested
BalanceAnswer(b) ==
    /\ pc = "balance"
    /\ balance' = b
    /\ LET from == payload.payload.from
       IN  IF b = Threw
           THEN Conclude(op, Reject("invalid_tron_payload_balance_check_failed",
                                    "Balance check failed", from), invoked)
           ELSE IF InsufficientBalance(b, requirements.amount)
           THEN Conclude(op, Reject("invalid_tron_payload_insufficient_balance", "",
                                    from), invoked)
           ELSE /\ invoked' = Append(invoked, "estimateEnergy")
                /\ pc' = "energy"
                /\ UNCHANGED << verification, settlement, redecoded >>
    /\ UNCHANGED << inputs, clock, calls, accepted, op, queries, decoded, now,
                    estimatedEnergy, txID, attempt, polled >>
    /\ UNCHANGED broadcastResult
    /\ UNCHANGED previous
    /\ UNCHANGED contractVars
    /\ UNCHANGED callVars

\* mutant: an error of the energy estimate rejects the payment
EnergyAnswer_FailClosed(e) ==
    /\ pc = "energy"
    /\ estimatedEnergy' = e
    /\ LET from == payload.payload.from
       IN  IF e = Threw \/ TooExpensive(e, config.maxEnergyFeeSun)
           THEN Conclude(op, Reject("invalid_tron_payload_energy_too_expensive", "",
                                    from), invoked)
           ELSE Conclude(op, Valid(from), invoked)
    /\ UNCHANGED << inputs, clock, calls, accepted, op, queries, decoded, now,
                    balance, txID, attempt, polled >>
    /\ UNCHANGED broadcastResult
    /\ UNCHANGED previous
    /\ UNCHANGED contractVars
    /\ UNCHANGED callVars

\* estimateEnergy answers: step 12 and the verdict
EnergyAnswer(e) ==
    /\ pc = "energy"
    /\ estimatedEnergy' = e
    /\ LET from == payload.payload.from
       IN  IF e # Threw /\ TooExpensive(e, config.maxEnergyFeeSun)
           THEN Conclude(op, Reject("invalid_tron_payload_energy_too_expensive", "",
                                    from), invoked)
           ELSE Conclude(op, Valid(from), invoked)
    /\ UNCHANGED << inputs, clock, calls, accepted, op, queries, decoded, now,
                    balance, txID, attempt, polled >>
    /\ UNCHANGED broadcastResult
    /\ UNCHANGED previous
    /\ UNCHANGED contractVars
    /\ UNCHANGED callVars

\* settle resumes with the outcome of the second decode and broadcasts;
\* by now verify has returned and its locals are gone, and the second decoded
\* record is dropped unread
SettleBroadcast ==
    /\ pc = "redecoded"
    /\ IF ~redecoded.ok
       THEN /\ settlement' = SettleCaught(redecoded.error)
            /\ pc' = "done"
            /\ UNCHANGED << invoked, decoded, now, balance, estimatedEnergy,
                            redecoded >>
       ELSE /\ invoked' = Append(invoked, "broadcastTransaction")
            /\ pc' = "broadcast"
            /\ decoded' = NoDecode
            /\ now' = 0
            /\ balance' = Unasked
            /\ estimatedEnergy' = Unasked
            /\ redecoded' = NoDecode
            /\ UNCHANGED settlement
    /\ UNCHANGED << inputs, clock, calls, accepted, op, queries, verification,
                    txID, attempt, polled >>
    /\ UNCHANGED broadcastResult
    /\ UNCHANGED previous
    /\ UNCHANGED contractVars
    /\ UNCHANGED callVars

\* the node answers the broadcast; on success confirmTransaction starts and
\* issues its first status query
Broadcasted(result) ==
    /\ pc = "broadcast"
    /\ broadcastResult' = result
    /\ UNCHANGED previous
    /\ UNCHANGED contractVars
    /\ LET sent == broadcastTransaction(payload.payload.signedTransaction, result)
       IN  IF sent.threw
           THEN /\ settlement' = SettleCaught(sent.error)
                /\ pc' = "done"
                /\ UNCHANGED << invoked, txID, attempt, queries >>
           ELSE /\ txID' = sent.txID
                /\ invoked' = Append(invoked, "confirmTransaction")
                /\ attempt' = 0
                /\ queries' = 1
                /\ pc' = "confirm"
                /\ UNCHANGED settlement
    /\ UNCHANGED << inputs, clock, calls, accepted, op, decoded, now, balance,
                    estimatedEnergy, verification, redecoded, polled >>

\* the same with the node's answer unconstrained by earlier broadcasts
BroadcastAnswer(result) ==
    /\ UNCHANGED callVars
    /\ Broadcasted(result)

\* mutant: the polling loop has no attempt budget
PollAnswer_Unbounded(txInfo) ==
    /\ pc = "confirm"
    /\ polled' = txInfo
    /\ LET step == ConfirmAttempt(attempt, txInfo)
       IN  IF step.outcome = "return"
           THEN /\ settlement' = Settled(txID)
                /\ pc' = "done"
                /\ UNCHANGED << attempt, queries >>
           ELSE IF step.outcome = "throw"
           THEN /\ settlement' = SettleCaught(step.error)
                /\ pc' = "done"
                /\ UNCHANGED << attempt, queries >>
           ELSE /\ attempt' = attempt + 1
                /\ queries' = queries + 1
                /\ UNCHANGED << pc, settlement >>
    /\ UNCHANGED << inputs, clock, calls, accepted, op, invoked, decoded, now,
                    balance, estimatedEnergy, verification, redecoded, txID >>
    /\ UNCHANGED broadcastResult
    /\ UNCHANGED previous
    /\ UNCHANGED contractVars
    /\ UNCHANGED callVars

\* getTransactionInfo answers one polling attempt
PollAnswer(txInfo) ==
    /\ pc = "confirm"
    /\ polled' = txInfo
    /\ LET step == ConfirmAttempt(attempt, txInfo)
       IN  IF step.outcome = "return"
           THEN /\ settlement' = Settled(txID)
                /\ pc' = "done"
                /\ UNCHANGED << attempt, queries >>
           ELSE IF step.outcome = "throw"
           THEN /\ settlement' = SettleCaught(step.error)
                /\ pc' = "done"
                /\ UNCHANGED << attempt, queries >>
           ELSE /\ attempt' = attempt + 1
                /\ IF attempt + 1 < maxAttempts
                   THEN /\ queries' = queries + 1
                        /\ UNCHANGED << pc, settlement >>
                   ELSE /\ settlement' = SettleCaught(ConfirmTimeout)
                        /\ pc' = "done"
                        /\ UNCHANGED queries
    /\ UNCHANGED << inputs, clock, calls, accepted, op, invoked, decoded, now,
                    balance, estimatedEnergy, verification, redecoded, txID >>
    /\ UNCHANGED broadcastResult
    /\ UNCHANGED previous
    /\ UNCHANGED contractVars
    /\ UNCHANGED callVars

\* the call's result is handed to the caller; nothing of the call is kept
Returned ==
    /\ pc = "done"
    /\ accepted' = (accepted \/ (op = "verify" /\ verification.isValid))
    /\ op' = "none"
    /\ pc' = "idle"
    /\ invoked' = <<>>
    /\ queries' = 0
    /\ decoded' = NoDecode
    /\ now' = 0
    /\ balance' = Unasked
    /\ estimatedEnergy' = Unasked
    /\ verification' = NoVerification
    /\ redecoded' = NoDecode
    /\ txID' = <<>>
    /\ attempt' = 0
    /\ polled' = NoTxInfo
    /\ broadcastResult' = NoBroadcastResult
    /\ settlement' = NoSettlement
    /\ UNCHANGED << inputs, clock, calls >>
    /\ UNCHANGED contractVars

\* the same, remembering what a verify() read and answered
Return ==
    /\ previous' = IF op = "verify"
                   THEN [now |-> now, balance |-> balance,
                         estimatedEnergy |-> estimatedEnergy,
                         verification |-> verification]
                   ELSE NoPrevious
    /\ UNCHANGED callVars
    /\ Returned

\* time passes: between calls, and between the start of a call and verify's
\* reading of Date.now() (step 10), the only place the clock is read
Tick ==
    /\ clock < MaxNow
    /\ pc \in {"idle", "decoded"}
    /\ clock' = clock + 1
    /\ UNCHANGED << inputs, calls, accepted, op, pc, invoked, queries, decoded,
                    now, balance, estimatedEnergy, verification, redecoded, txID,
                    attempt, polled, settlement >>
    /\ UNCHANGED broadcastResult
    /\ UNCHANGED previous
    /\ UNCHANGED contractVars
    /\ UNCHANGED callVars

Next ==
    \/ \E o \in {"verify", "settle"} : Start(o)
    \/ VerifyChecks
    \/ \E b \in BalanceAnswers : BalanceAnswer(b)
    \/ \E e \in EnergyAnswers : EnergyAnswer(e)
    \/ SettleBroadcast
    \/ \E r \in BroadcastResults : BroadcastAnswer(r)
    \/ \E t \in TxInfos : PollAnswer(t)
    \/ Return
    \/ Tick

Spec == Init /\ [][Next]_vars

\* ------------------------------------------------------------------------
\* EruditePayV2, the wrapper contract, and the TRC-20 token it moves
\* ------------------------------------------------------------------------
MAX_FEE_BPS     == 500
BPS_DENOMINATOR == 10000
\* transactions sent to the contract in one behaviour
MaxOps == 3

\* address(0) and address(this)
ZeroAddress == "0"
This        == "this"
\* the accounts that hold tokens
Holders == {"deployer", "fac", "payer", "merchant", "treasury", This}
\* msg.sender of the transactions
Callers == {"deployer", "fac", "payer"}

\* the contract's storage and the token's ledger
State ==
    [owner |-> owner, treasury |-> treasury, feeBasisPoints |-> feeBasisPoints,
     paused |-> paused, isFacilitator |-> isFacilitator, usedNonces |-> usedNonces,
     balanceOf |-> balanceOf, allowance |-> allowance]

\* a transaction ends: it reverted with an error, or it went through and
\* left the state next
Reverted(message) == [ok |-> FALSE, error |-> message, next |-> State]
Done(next) == [ok |-> TRUE, error |-> "", next |-> next]

\* ITRC20.transferFrom(from, to, value) called by the contract: a standard
\* token moves value when from holds it and has approved the contract for it
transferFrom(st, from, to, value) ==
    IF st.balanceOf[from] >= value /\ st.allowance[from] >= value
    THEN [ok |-> TRUE,
          st |-> [st EXCEPT !.balanceOf[from] = @ - value, !.balanceOf[to] = @ + value,
                            !.allowance[from] = @ - value]]
    ELSE [ok |-> FALSE, st |-> st]

\* ITRC20.transfer(to, value) called by the contract
transfer(st, to, value) ==
    IF st.balanceOf[This] >= value
    THEN [ok |-> TRUE,
          st |-> [st EXCEPT !.balanceOf[This] = @ - value, !.balanceOf[to] = @ + value]]
    ELSE [ok |-> FALSE, st |-> st]

\* mutant: anyone may execute payments
onlyFacilitator_Anyone(sender) == TRUE
\* mutant: the pause flag is not looked at
whenNotPaused_Ignored == TRUE

\* modifiers
onlyOwner(sender) == sender = owner
onlyFacilitator(sender) == sender \in isFacilitator
whenNotPaused == ~paused

\* fee = amount * feeBasisPoints / 10000, in integer arithmetic
FeeOf(value) == (value * feeBasisPoints) \div BPS_DENOMINATOR

\* mutant: a used nonce is not refused
Payment_NoReplayCheck(st, p) ==
    IF p.token = ZeroAddress THEN Reverted("invalid token")
    ELSE IF p.payer = ZeroAddress THEN Reverted("invalid payer")
    ELSE IF p.merchant = ZeroAddress THEN Reverted("invalid merchant")
    ELSE IF ~(p.amount > 0) THEN Reverted("amount must be > 0")
    ELSE LET marked == [st EXCEPT !.usedNonces = @ \cup {<< p.payer, p.nonce >>}]
             feeAmount == FeeOf(p.amount)
             netAmount == p.amount - feeAmount
             pulled == transferFrom(marked, p.payer, This, p.amount)
             sent == transfer(pulled.st, p.merchant, netAmount)
             feed == IF feeAmount > 0 THEN transfer(sent.st, treasury, feeAmount)
                     ELSE sent
         IN  IF ~pulled.ok THEN Reverted("transferFrom payer failed")
             ELSE IF ~sent.ok THEN Reverted("transfer to merchant failed")
             ELSE IF ~feed.ok THEN Reverted("transfer to treasury failed")
             ELSE Done(feed.st)

\* the body of executePayment, which executeBatchPayment repeats for each
\* entry: p = [token, payer, merchant, amount, nonce], run on state st
Payment(st, p) ==
    IF p.token = ZeroAddress THEN Reverted("invalid token")
    ELSE IF p.payer = ZeroAddress THEN Reverted("invalid payer")
    ELSE IF p.merchant = ZeroAddress THEN Reverted("invalid merchant")
    ELSE IF ~(p.amount > 0) THEN Reverted("amount must be > 0")
    ELSE IF << p.payer, p.nonce >> \in st.usedNonces THEN Reverted("nonce already used")
    ELSE LET marked == [st EXCEPT !.usedNonces = @ \cup {<< p.payer, p.nonce >>}]
             feeAmount == FeeOf(p.amount)
             netAmount == p.amount - feeAmount
             pulled == transferFrom(marked, p.payer, This, p.amount)
             sent == transfer(pulled.st, p.merchant, netAmount)
             feed == IF feeAmount > 0 THEN transfer(sent.st, treasury, feeAmount)
                     ELSE sent
         IN  IF ~pulled.ok THEN Reverted("transferFrom payer failed")
             ELSE IF ~sent.ok THEN Reverted("transfer to merchant failed")
             ELSE IF ~feed.ok THEN Reverted("transfer to treasury failed")
             ELSE Done(feed.st)

\* the loop of executeBatchPayment from entry i on
RECURSIVE BatchFrom(_, _, _)
BatchFrom(st, items, i) ==
    IF i > Len(items) THEN Done(st)
    ELSE LET one == Payment(st, items[i])
         IN  IF one.ok THEN BatchFrom(one.next, items, i + 1) ELSE one

\* the (payer, nonce) pairs of a list of payments, in order
PairsOf(items) == [i \in 1..Len(items) |-> << items[i].payer, items[i].nonce >>]

\* the transaction fn(args) sent by sender to the deployed contract ends with
\* outcome; pairs are the payments it executed
Transact(fn, sender, args, outcome, pairs) ==
    /\ ops < MaxOps
    /\ ops' = ops + 1
    /\ receipt' = [fn |-> fn, sender |-> sender, args |-> args, ok |-> outcome.ok,
                   error |-> outcome.error, before |-> State]
    /\ owner' = outcome.next.owner
    /\ treasury' = outcome.next.treasury
    /\ feeBasisPoints' = outcome.next.feeBasisPoints
    /\ paused' = outcome.next.paused
    /\ isFacilitator' = outcome.next.isFacilitator
    /\ usedNonces' = outcome.next.usedNonces
    /\ balanceOf' = outcome.next.balanceOf
    /\ allowance' = outcome.next.allowance
    /\ paid' = IF outcome.ok THEN paid \o pairs ELSE paid
    /\ past' = [isFacilitator |-> past.isFacilitator \cup outcome.next.isFacilitator,
                paused |-> past.paused \/ outcome.next.paused]
    /\ UNCHANGED deployed
    /\ UNCHANGED schemeVars
    /\ UNCHANGED callVars

executePayment(sender, p) ==
    /\ deployed
    /\ Transact("executePayment", sender, << p >>,
             IF ~onlyFacilitator(sender) THEN Reverted("caller is not a facilitator")
             ELSE IF ~whenNotPaused THEN Reverted("contract is paused")
             ELSE Payment(State, p),
             PairsOf(<< p >>))

\* aligned: the five arrays have the same length
executeBatchPayment(sender, items, aligned) ==
    /\ deployed
    /\ Transact("executeBatchPayment", sender, items,
             IF ~onlyFacilitator(sender) THEN Reverted("caller is not a facilitator")
             ELSE IF ~whenNotPaused THEN Reverted("contract is paused")
             ELSE IF ~aligned THEN Reverted("array length mismatch")
             ELSE IF ~(Len(items) <= 20) THEN Reverted("batch too large")
             ELSE BatchFrom(State, items, 1),
             PairsOf(items))

setFacilitator(sender, facilitator, active) ==
    /\ deployed
    /\ Transact("setFacilitator", sender, << facilitator, active >>,
             IF ~onlyOwner(sender) THEN Reverted("caller is not the owner")
             ELSE IF facilitator = ZeroAddress THEN Reverted("invalid facilitator")
             ELSE Done([State EXCEPT !.isFacilitator =
                            IF active THEN @ \cup {facilitator} ELSE @ \ {facilitator}]),
             << >>)

addFacilitator(sender, facilitator) ==
    /\ deployed
    /\ Transact("addFacilitator", sender, << facilitator >>,
             IF ~onlyOwner(sender) THEN Reverted("caller is not the owner")
             ELSE IF facilitator = ZeroAddress THEN Reverted("invalid facilitator")
             ELSE Done([State EXCEPT !.isFacilitator = @ \cup {facilitator}]),
             << >>)

\* mutant: the fee is not capped
setFee_Uncapped(sender, bps) ==
    /\ deployed
    /\ Transact("setFee", sender, << bps >>,
             IF ~onlyOwner(sender) THEN Reverted("caller is not the owner")
             ELSE Done([State EXCEPT !.feeBasisPoints = bps]),
             << >>)

setFee(sender, bps) ==
    /\ deployed
    /\ Transact("setFee", sender, << bps >>,
             IF ~onlyOwner(sender) THEN Reverted("caller is not the owner")
             ELSE IF ~(bps <= MAX_FEE_BPS) THEN Reverted("fee exceeds maximum")
             ELSE Done([State EXCEPT !.feeBasisPoints = bps]),
             << >>)

setTreasury(sender, to) ==
    /\ deployed
    /\ Transact("setTreasury", sender, << to >>,
             IF ~onlyOwner(sender) THEN Reverted("caller is not the owner")
             ELSE IF to = ZeroAddress THEN Reverted("treasury cannot be zero")
             ELSE Done([State EXCEPT !.treasury = to]),
             << >>)

setPaused(sender, flag) ==
    /\ deployed
    /\ Transact("setPaused", sender, << flag >>,
             IF ~onlyOwner(sender) THEN Reverted("caller is not the owner")
             ELSE Done([State EXCEPT !.paused = flag]),
             << >>)

transferOwnership(sender, newOwner) ==
    /\ deployed
    /\ Transact("transferOwnership", sender, << newOwner >>,
             IF ~onlyOwner(sender) THEN Reverted("caller is not the owner")
             ELSE IF newOwner = ZeroAddress THEN Reverted("new owner cannot be zero")
             ELSE Done([State EXCEPT !.owner = newOwner]),
             << >>)

rescueTokens(sender, to, value) ==
    /\ deployed
    /\ Transact("rescueTokens", sender, << to, value >>,
             IF ~onlyOwner(sender) THEN Reverted("caller is not the owner")
             ELSE IF to = ZeroAddress THEN Reverted("rescue to zero address")
             ELSE LET moved == transfer(State, to, value)
                  IN  IF moved.ok THEN Done(moved.st)
                      ELSE Reverted("rescue transfer failed"),
             << >>)

\* the payments sent: the payer's transfer of 399 or 400 to the merchant
\* under nonce 1 or 2, and payments with one argument changed
BasePayment ==
    [token |-> "usdt", payer |-> "payer", merchant |-> "merchant", amount |-> 400,
     nonce |-> 1]
PaymentArgs ==
    { [BasePayment EXCEPT !.nonce = n, !.amount = a] : n \in {1, 2}, a \in {399, 400} }
        \cup { [BasePayment EXCEPT !.token = ZeroAddress],
               [BasePayment EXCEPT !.payer = ZeroAddress],
               [BasePayment EXCEPT !.merchant = ZeroAddress],
               [BasePayment EXCEPT !.amount = 0],
               \* paid to the contract itself
               [BasePayment EXCEPT !.merchant = This],
               \* a payer without funds
               [BasePayment EXCEPT !.payer = "fac"] }
BatchEntries ==
    { BasePayment, [BasePayment EXCEPT !.nonce = 2],
      [BasePayment EXCEPT !.merchant = ZeroAddress] }
\* batches of up to two entries with arrays of one length, and one batch
\* whose arrays differ in length
Batches ==
    { [items |-> b, aligned |-> TRUE] :
        b \in { << >> } \cup { << x >> : x \in BatchEntries }
                 \cup { << x, y >> : x \in BatchEntries, y \in BatchEntries } }
        \cup { [items |-> << BasePayment >>, aligned |-> FALSE] }

\* constructor(_treasury, _feeBasisPoints) sent by the deployer; the payer
\* holds 900 tokens (two payments, not three) and has approved the contract for 1000
constructor(to, bps) ==
    /\ receipt = [fn |-> "constructor", sender |-> "deployer", args |-> << to, bps >>,
                  ok |-> to # ZeroAddress /\ bps <= MAX_FEE_BPS,
                  error |-> IF to = ZeroAddress THEN "treasury cannot be zero"
                            ELSE IF ~(bps <= MAX_FEE_BPS) THEN "fee exceeds maximum"
                            ELSE "",
                  before |-> << >>]
    /\ IF to # ZeroAddress /\ bps <= MAX_FEE_BPS
       THEN /\ deployed = TRUE
            /\ owner = "deployer"
            /\ treasury = to
            /\ feeBasisPoints = bps
            /\ isFacilitator = {"deployer"}
       ELSE /\ deployed = FALSE
            /\ owner = ZeroAddress
            /\ treasury = ZeroAddress
            /\ feeBasisPoints = 0
            /\ isFacilitator = {}
    /\ paused = FALSE
    /\ usedNonces = {}
    /\ balanceOf = [h \in Holders |-> IF h = "payer" THEN 900 ELSE 0]
    /\ allowance = [h \in Holders |-> IF h = "payer" THEN 1000 ELSE 0]
    /\ paid = << >>
    /\ past = [isFacilitator |-> isFacilitator, paused |-> FALSE]
    /\ ops = 0

InitPay ==
    /\ payload = << >>
    /\ requirements = << >>
    /\ config = DefaultConfig
    /\ NoCall
    /\ NoneParked
    /\ \E to \in {ZeroAddress, "treasury", This}, bps \in {25, 500, 501} :
          constructor(to, bps)

NextPay ==
    \/ \E c \in Callers, p \in PaymentArgs : executePayment(c, p)
    \/ \E c \in Callers, b \in Batches : executeBatchPayment(c, b.items, b.aligned)
    \/ \E c \in Callers, f \in {ZeroAddress, "fac"}, active \in BOOLEAN :
          setFacilitator(c, f, active)
    \/ \E c \in Callers, f \in {ZeroAddress, "fac"} : addFacilitator(c, f)
    \/ \E c \in Callers, bps \in {0, 500, 501} : setFee(c, bps)
    \/ \E c \in Callers, to \in {ZeroAddress, This} : setTreasury(c, to)
    \/ \E c \in Callers, flag \in BOOLEAN : setPaused(c, flag)
    \/ \E c \in Callers, n \in {ZeroAddress, "fac"} : transferOwnership(c, n)
    \/ \E c \in Callers, to \in {ZeroAddress, "deployer"} : rescueTokens(c, to, 1)

SpecPay == InitPay /\ [][NextPay]_vars

\* ------------------------------------------------------------------------
\* Concurrent calls: verify()/settle() are async functions of one scheme
\* object, so a second call may run while the first waits at an await
\* ------------------------------------------------------------------------
\* calls that may wait at the same time
MaxParked == 1

\* the places where a call waits for an answer of the signer
Awaiting == {"decoded", "balance", "energy", "redecoded", "broadcast", "confirm"}

\* the frame of the call in progress: the locals of verify, settle,
\* broadcastTransaction and confirmTransaction
Frame ==
    [op |-> op, pc |-> pc, invoked |-> invoked, queries |-> queries,
     decoded |-> decoded, now |-> now, balance |-> balance,
     estimatedEnergy |-> estimatedEnergy, verification |-> verification,
     redecoded |-> redecoded, txID |-> txID, attempt |-> attempt, polled |-> polled,
     broadcastResult |-> broadcastResult, settlement |-> settlement]

\* mutant: the verification is a member of the scheme object, which a resumed
\* call reads as the last call left it
Resumed_SharedVerification(frame) == [frame EXCEPT !.verification = verification]

\* what a call finds when it resumes: its own frame; the scheme object has
\* only the readonly members signer and config
Resumed(frame) == frame

\* the call in progress waits at an await and the event loop is free
Await ==
    /\ pc \in Awaiting
    /\ Len(parked) < MaxParked
    /\ parked' = Append(parked, Frame)
    /\ op' = "none"
    /\ pc' = "idle"
    /\ invoked' = <<>>
    /\ queries' = 0
    /\ decoded' = NoDecode
    /\ now' = 0
    /\ balance' = Unasked
    /\ estimatedEnergy' = Unasked
    /\ verification' = NoVerification
    /\ redecoded' = NoDecode
    /\ txID' = <<>>
    /\ attempt' = 0
    /\ polled' = NoTxInfo
    /\ broadcastResult' = NoBroadcastResult
    /\ settlement' = NoSettlement
    /\ UNCHANGED << inputs, clock, calls, accepted, previous, ledger, successes >>
    /\ UNCHANGED contractVars

\* the i-th waiting call is resumed once no call is running
Resume(i) ==
    /\ pc = "idle"
    /\ i \in DOMAIN parked
    /\ LET frame == Resumed(parked[i])
       IN  /\ op' = frame.op
           /\ pc' = frame.pc
           /\ invoked' = frame.invoked
           /\ queries' = frame.queries
           /\ decoded' = frame.decoded
           /\ now' = frame.now
           /\ balance' = frame.balance
           /\ estimatedEnergy' = frame.estimatedEnergy
           /\ verification' = frame.verification
           /\ redecoded' = frame.redecoded
           /\ txID' = frame.txID
           /\ attempt' = frame.attempt
           /\ polled' = frame.polled
           /\ broadcastResult' = frame.broadcastResult
           /\ settlement' = frame.settlement
    /\ parked' = SubSeq(parked, 1, i - 1) \o SubSeq(parked, i + 1, Len(parked))
    /\ UNCHANGED << inputs, clock, calls, accepted, previous, ledger, successes >>
    /\ UNCHANGED contractVars

\* the node's answer to sendRawTransaction means the transaction was taken
Acceptance(result) == ~result.threw /\ (result.result = TRUE \/ result.code = "SUCCESS")

\* the answer of a ledger that accepts a signed transaction for broadcast at
\* most once: a transaction it has accepted before is refused; when the
\* answer is lost on the way (the request throws) it may have been taken or not
LedgerAnswer(result, took) ==
    /\ LET signedTx == payload.payload.signedTransaction
           sent == signedTx.json
           takes == sent /\ (Acceptance(result) \/ (result.threw /\ took))
       IN  /\ takes => signedTx \notin ledger
           /\ ledger' = IF takes THEN ledger \cup {signedTx} ELSE ledger
    /\ UNCHANGED << parked, successes >>
    /\ Broadcasted(result)

\* the call's result is handed to its caller
Deliver ==
    /\ successes' = IF op = "settle" /\ settlement.success THEN successes + 1
                    ELSE successes
    /\ UNCHANGED << parked, ledger, previous >>
    /\ Returned

\* calls on one payload that verify() takes as far as the chain queries: an
\* honest transfer that expires early or late
InitCalls ==
    /\ payload \in Payloads
    /\ payload.payload.signedTransaction \in { Honest(1, e) : e \in {1, 2} }
    /\ requirements \in Requirements
    /\ ReachesOracles(payload, requirements)
    /\ config = DefaultConfig
    /\ NoCall
    /\ NoContract
    /\ NoneParked

\* the answers the interleaved calls get: a balance too small or enough, an
\* estimate within or over the ceiling, a broadcast taken, refused as a
\* duplicate or lost, a transaction not indexed yet, executed or reverted
CallBalances == {0, 2}
CallEnergies == {65000, 300000}
CallBroadcasts ==
    { r \in BroadcastResults :
        r.result = TRUE \/ r.code = "DUP_TRANSACTION_ERROR" \/ r.threw }
CallTxInfos ==
    { t \in TxInfos :
        ~t.threw /\ t.resMessage = "" /\ (t.id => t.result \in {"SUCCESS", "REVERT"}) }

NextCalls ==
    \/ \E o \in {"verify", "settle"} : Start(o)
    \/ VerifyChecks
    \/ \E b \in CallBalances : BalanceAnswer(b)
    \/ \E e \in CallEnergies : EnergyAnswer(e)
    \/ SettleBroadcast
    \/ \E r \in CallBroadcasts, took \in BOOLEAN : LedgerAnswer(r, took)
    \/ \E t \in CallTxInfos : PollAnswer(t)
    \/ Deliver
    \/ Await
    \/ \E i \in 1..MaxParked : Resume(i)
    \/ Tick

SpecCalls == InitCalls /\ [][NextCalls]_vars

\* ------------------------------------------------------------------------
\* Properties
\* ------------------------------------------------------------------------
tx == payload.payload.signedTransaction

\* verify has just returned: a verify() call is done, or settle() holds the
\* verdict and has decoded again
VerifyJustReturned ==
    \/ op = "verify" /\ pc = "done"
    \/ op = "settle" /\ pc = "redecoded"

\* the outcomes of decodeTransaction the call in progress holds
DecodeOutcomes == {decoded, redecoded} \ {NoDecode}

\* C1: verify() returns isValid=true only if the decoded transaction is a
\* TriggerSmartContract call with selector a9059cbb whose contractAddress is
\* requirements.asset, whose recipient is requirements.payTo and whose amount
\* is at least requirements.amount.
C1_AcceptsOnlyMatchingTransfer ==
    (VerifyJustReturned /\ verification.isValid) =>
        /\ decoded.ok
        /\ decoded.contractType = "TriggerSmartContract"
        /\ decoded.functionSelector = <<"a", "9", "0", "5", "9", "c", "b", "b">>
        /\ decoded.contractAddress = requirements.asset
        /\ decoded.parameters.to = requirements.payTo
        /\ decoded.parameters.amount # Undefined
        /\ decoded.parameters.amount >= requirements.amount

\* a verify() call accepted a payment of more than the required amount
C1_Witness ==
    /\ op = "verify" /\ pc = "done" /\ verification.isValid
    /\ decoded.parameters.amount = 2 /\ requirements.amount = 1

\* the mirror restates the signed bytes (up to the case of the hex digits)
MirrorMatchesSigned(t) ==
    LET value  == t.raw_data.contract[1]
        signed == SignedFields(toLowerCase(t.raw_data_hex))
    IN  /\ toLowerCase(value.data) = signed.data
        /\ toLowerCase(value.contract_address) = signed.contract
        /\ toLowerCase(value.owner_address) = signed.owner

\* C2: decodeTransaction never succeeds on an envelope whose mirror call data,
\* contract_address or owner_address differs from what the signed raw_data_hex
\* encodes, so the recipient, amount and contract address it returns are
\* those of the signed bytes.
C2_TamperedMirrorNeverDecodes ==
    \A d \in DecodeOutcomes :
        d.ok =>
            LET signed == SignedFields(toLowerCase(tx.raw_data_hex))
            IN  /\ MirrorMatchesSigned(tx)
                /\ d.contractAddress = fromHex(signed.contract)
                /\ d.functionSelector = TRANSFER =>
                      /\ d.parameters.to =
                            fromHex(Hex41 \o substring(signed.data, 32, 72))
                      /\ d.parameters.amount =
                            BigIntHex(substring(signed.data, 72, 136))

\* the address recovered from the recomputed txID and the first signature
RecoveredAddress(t) ==
    LET sigBytes == toLowerCase(t.signature[1])
    IN  fromHex(ecRecover(sha256(BufferFromHex(t.raw_data_hex)),
                          substring(sigBytes, 0, 64), substring(sigBytes, 64, 128),
                          substring(sigBytes, 128, 130)).hex)

\* the checks that come before the hash comparison pass
HashIsCompared(t, network) ==
    /\ network \in TRON_RPC_URLS
    /\ t.json
    /\ Len(t.signature) > 0
    /\ \A n \in 1..Len(t.signature) : IsSignatureFormat(t.signature[n])
    /\ IsHex(t.raw_data_hex)

\* the checks that come before the signer/owner comparison pass
OwnerIsCompared(t, network) ==
    /\ HashIsCompared(t, network)
    /\ t.txID = sha256(BufferFromHex(t.raw_data_hex))
    /\ substring(toLowerCase(t.signature[1]), 128, 130) \in RecoveryIds
    /\ t.raw_data.has_contract
    /\ Len(t.raw_data.contract) > 0
    /\ t.raw_data.contract[1].type = "TriggerSmartContract"

\* C3: decodeTransaction succeeds only if the address recovered from the
\* recomputed txID and the first signature equals the owner_address of the
\* first contract entry; when the comparison finds them different, decode
\* fails with the signature-owner mismatch and returns no decoded record.
C3_SignerMustBeOwner ==
    \A d \in DecodeOutcomes :
        LET mirrorOwner == fromHex(tx.raw_data.contract[1].owner_address)
        IN  /\ d.ok => RecoveredAddress(tx) = mirrorOwner
            /\ (OwnerIsCompared(tx, requirements.network)
                /\ RecoveredAddress(tx) # mirrorOwner)
                  => d = DecodeError("signature_owner_mismatch")

\* a transaction signed by a key that is not the owner's was rejected
C3_Witness ==
    /\ decoded.error = "signature_owner_mismatch"
    /\ RecoveredAddress(tx) = fromHex(MalloryHex)
    /\ tx.raw_data.contract[1].owner_address = PayerHex

\* C4: a decoded transaction carries the hash recomputed from raw_data_hex as
\* its txID, and decode fails with the hash mismatch whenever the claimed
\* txID differs from that hash.
C4_TxIDIsRecomputedHash ==
    \A d \in DecodeOutcomes :
        LET hash == sha256(BufferFromHex(tx.raw_data_hex))
        IN  /\ d.ok => d.txID = hash
            /\ tx.txID # hash => ~d.ok
            /\ (HashIsCompared(tx, requirements.network) /\ tx.txID # hash)
                  => d = DecodeError("txid_mismatch")

\* an envelope whose claimed txID is the hash of other bytes was rejected
C4_Witness ==
    /\ decoded.error = "txid_mismatch"
    /\ tx.txID # sha256(BufferFromHex(tx.raw_data_hex))

\* what decodeTransaction yields for each envelope and network presented
DecodeTable ==
    { [envelope |-> e, network |-> n, decoded |-> decodeTransaction(e, n)] :
        e \in Envelopes, n \in {r.network : r \in Requirements} }
DecodeOf(e, n) ==
    (CHOOSE row \in DecodeTable : row.envelope = e /\ row.network = n).decoded

\* the order of the checks of verify, as the reasons they reject with
CheckOrder ==
    << "unsupported_scheme", "network_mismatch", "invalid_tron_payload_type",
       "invalid_tron_payload_decode_failed",
       "invalid_tron_payload_not_smart_contract",
       "invalid_tron_payload_not_transfer",
       "invalid_tron_payload_asset_mismatch",
       "invalid_tron_payload_recipient_mismatch",
       "invalid_tron_payload_amount_insufficient",
       "invalid_tron_payload_sender_mismatch",
       "invalid_tron_payload_facilitator_is_sender",
       "invalid_tron_payload_expired",
       "invalid_tron_payload_insufficient_balance",
       "invalid_tron_payload_energy_too_expensive" >>

\* the checks of CheckOrder that, taken one by one, fail for the input of the
\* call in progress: the checks on the transaction for what a decode of it
\* yields, the checks on oracle answers for the answers received (an
\* expiration is judged at the time verify read, or at the current time when
\* verify read none)
FailingChecks ==
    LET d == DecodeOf(tx, requirements.network)
        t == IF now # 0 THEN now ELSE clock
    IN  { n \in 1..Len(CheckOrder) :
            \/ n = 1 /\ (payload.accepted.scheme # "exact"
                         \/ requirements.scheme # "exact")
            \/ n = 2 /\ payload.accepted.network # requirements.network
            \/ n = 3 /\ payload.payload.method # ""
            \/ n = 4 /\ ~d.ok
            \/ n = 5 /\ d.ok /\ d.contractType # "TriggerSmartContract"
            \/ n = 6 /\ d.ok /\ d.functionSelector # TRANSFER
            \/ n = 7 /\ d.ok /\ d.contractAddress # requirements.asset
            \/ n = 8 /\ d.ok /\ d.parameters.to # requirements.payTo
            \/ n = 9 /\ d.ok /\ ( \/ d.parameters.amount = Undefined
                                  \/ d.parameters.amount < requirements.amount )
            \/ n = 10 /\ d.ok /\ d.ownerAddress # payload.payload.from
            \/ n = 11 /\ d.ok /\ d.ownerAddress = fromHex(FacilitatorHex)
            \/ n = 12 /\ d.ok /\ d.expiration # 0 /\ d.expiration < t
            \/ n = 13 /\ balance # Unasked
                      /\ (balance = Threw \/ balance < requirements.amount)
            \/ n = 14 /\ estimatedEnergy \notin {Unasked, Threw}
                      /\ estimatedEnergy * 420 > config.maxEnergyFeeSun }

FirstFailing ==
    LET failing == FailingChecks
    IN  IF failing = {} THEN 0
        ELSE CHOOSE n \in failing : \A m \in failing : n <= m

\* the signer methods verify has invoked
VerifyQueries == IF Len(invoked) > 3 THEN SubSeq(invoked, 1, 3) ELSE invoked

\* the queries verify makes when check n is the first to fail (0: none fails)
QueriesUpTo(n) ==
    IF n \in 1..3 THEN <<>>
    ELSE IF n \in 4..12 THEN << "decodeTransaction" >>
    ELSE IF n = 13 THEN << "decodeTransaction", "getTokenBalance" >>
    ELSE << "decodeTransaction", "getTokenBalance", "estimateEnergy" >>

C6_RejectionPropagatesUnchanged ==
    (op = "settle" /\ verification # NoVerification /\ ~verification.isValid) =>
        /\ pc = "done"
        /\ ~settlement.success
        /\ settlement.errorReason = verification.invalidReason
        /\ settlement.transaction = <<>>
        /\ \A n \in 1..Len(invoked) :
               invoked[n] \notin {"broadcastTransaction", "confirmTransaction"}
        /\ queries = 0

\* settle returned the balance rejection of its verification
C6_Witness ==
    /\ op = "settle" /\ pc = "done"
    /\ verification.invalidReason = "invalid_tron_payload_insufficient_balance"
    /\ settlement.errorReason = "invalid_tron_payload_insufficient_balance"
    /\ invoked = << "decodeTransaction", "getTokenBalance" >>

\* C7: in settle(), broadcastTransaction is invoked only after verify()
\* returned isValid=true and a second decodeTransaction of the same signed
\* transaction succeeded in that call, and confirmTransaction is invoked only
\* after broadcastTransaction returned a transaction id.
C7_SideEffectsAfterVerifyAndRedecode ==
    \A n \in 1..Len(invoked) :
        /\ invoked[n] = "broadcastTransaction" =>
              /\ op = "settle"
              /\ verification.isValid
              /\ SubSeq(invoked, 1, n - 1) =
                    << "decodeTransaction", "getTokenBalance", "estimateEnergy",
                       "decodeTransaction" >>
              /\ DecodeOf(tx, requirements.network).ok
        /\ invoked[n] = "confirmTransaction" =>
              /\ n > 1 /\ invoked[n - 1] = "broadcastTransaction"
              /\ txID \in {NodeTxId, tx.txID}
              /\ Len(txID) > 0

\* settle has broadcast and is waiting for the confirmation
C7_Witness ==
    /\ op = "settle" /\ pc = "confirm"
    /\ invoked = << "decodeTransaction", "getTokenBalance", "estimateEnergy",
                    "decodeTransaction", "broadcastTransaction",
                    "confirmTransaction" >>
    /\ txID = NodeTxId

\* C8: settle() returns success=true only if a status poll for the broadcast
\* transaction returned the receipt result SUCCESS; transaction is then the
\* id the broadcast returned and payer the payer of the verification of the
\* same call.
C8_SuccessOnlyOnSuccessReceipt ==
    settlement.success =>
        /\ op = "settle" /\ pc = "done"
        /\ ~polled.threw /\ polled.id /\ polled.result = "SUCCESS"
        /\ queries >= 1
        /\ invoked[Len(invoked)] = "confirmTransaction"
        /\ settlement.transaction = txID
        /\ txID \in {NodeTxId, tx.txID}
        /\ verification.isValid
        /\ settlement.payer = verification.payer
        /\ settlement.payer = payload.payload.from

\* settle succeeded on the third poll with the id the node assigned
C8_Witness ==
    /\ settlement.success
    /\ settlement.transaction = NodeTxId
    /\ queries = 3
    /\ settlement.payer = fromHex(PayerHex)

\* C9: once verify() accepted a payload, a settle() of the same payload that
\* finds the payer's balance below requirements.amount, or the expiration
\* passed, rejects with the corresponding reason and does not broadcast.
C9_SettleReverifies ==
    (op = "settle" /\ accepted) =>
        /\ (balance \notin {Unasked, Threw} /\ balance < requirements.amount) =>
              /\ pc = "done"
              /\ ~settlement.success
              /\ settlement.errorReason = "invalid_tron_payload_insufficient_balance"
              /\ \A n \in 1..Len(invoked) : invoked[n] # "broadcastTransaction"
        /\ (now # 0 /\ tx.raw_data.expiration # 0 /\ tx.raw_data.expiration < now) =>
              /\ pc = "done"
              /\ ~settlement.success
              /\ settlement.errorReason = "invalid_tron_payload_expired"
              /\ \A n \in 1..Len(invoked) : invoked[n] # "broadcastTransaction"
        /\ (\E n \in 1..Len(invoked) : invoked[n] = "broadcastTransaction") =>
              verification.isValid

\* a payload verify() accepted expired before settle(), which rejected it
C9_Witness ==
    /\ op = "settle" /\ accepted /\ pc = "done"
    /\ tx.raw_data.expiration = 1 /\ now = 2
    /\ settlement.errorReason = "invalid_tron_payload_expired"

\* a payload verify() accepted lost its balance before settle(), which
\* rejected it
C9_WitnessBalance ==
    /\ op = "settle" /\ accepted /\ pc = "done"
    /\ balance = 0
    /\ settlement.errorReason = "invalid_tron_payload_insufficient_balance"

\* C10: as soon as a status query returns a receipt result that is defined
\* and not SUCCESS, confirmTransaction fails with the execution-failed error
\* naming that result, issues no further status query, and settle() returns
\* success=false.
C10_FailedReceiptIsFatal ==
    (~polled.threw /\ polled.id /\ polled.result \notin {"", "SUCCESS"}) =>
        /\ pc = "done"
        /\ ~settlement.success
        /\ settlement.errorMessage \in
              { "Transaction on-chain but execution failed: " \o polled.result,
                "Transaction on-chain but execution failed: " \o polled.result
                    \o " -- " \o polled.resMessage }
        /\ queries = attempt + 1
        /\ settlement.transaction = <<>>

\* the third status query found the transaction out of energy
C10_Witness ==
    /\ polled.result = "OUT_OF_ENERGY"
    /\ attempt = 2 /\ queries = 3
    /\ pc = "done" /\ ~settlement.success

\* the last status query found the transaction indexed without a receipt
NoReceiptYet == ~polled.threw /\ polled.id /\ polled.result = ""

\* C11: a transaction with no receipt yet keeps being polled, but once 5
\* attempts have passed with still no receipt the polling ends with the
\* missing-receipt error: polling never goes on after a sixth query has
\* found no receipt.
C11_MissingReceiptAfterFiveAttempts ==
    (pc = "confirm" /\ NoReceiptYet) => attempt <= 5

\* C12: a transport error raised by a status query never ends the polling
\* while attempts remain; only the error of the last attempt is surfaced,
\* unchanged.
C12_TransportErrorsAreRetried ==
    (polled.threw /\ pc = "done") =>
        /\ attempt = maxAttempts - 1
        /\ settlement.errorMessage = polled.message

\* C13: confirmTransaction makes at most 30 status queries whatever the
\* client answers, stops when the 30 attempts are used up, and fails with the
\* confirmation timeout exactly when all 30 completed without a SUCCESS
\* receipt, a failed receipt or a surfaced error.
C13_PollingIsBounded ==
    /\ queries <= 30
    /\ attempt <= 30
    /\ attempt = 30 =>
          /\ pc = "done" /\ queries = 30
          /\ ~settlement.success
          /\ settlement.errorMessage = "Transaction confirmation timeout after 90s"
    /\ settlement.errorMessage = "Transaction confirmation timeout after 90s" =>
          /\ attempt = 30 /\ queries = 30
          /\ ~polled.threw /\ ~polled.id

\* all 30 status queries found the transaction not indexed
C13_Witness ==
    /\ pc = "done" /\ queries = 30
    /\ settlement.errorMessage = "Transaction confirmation timeout after 90s"

\* the node's answer carries the success flag or the code SUCCESS
BroadcastAccepted ==
    /\ ~broadcastResult.threw
    /\ broadcastResult.result = TRUE \/ broadcastResult.code = "SUCCESS"

\* C14: broadcastTransaction returns a transaction id only when the node's
\* answer carries result = true or the code SUCCESS; for any other answer it
\* throws the broadcast-failed error with the decoded error text, polling is
\* never started, and settle() returns success=false.
C14_BroadcastNeedsSuccessFlag ==
    broadcastResult # NoBroadcastResult =>
        /\ BroadcastAccepted =>
              /\ txID # <<>>
              /\ txID = IF broadcastResult.txid # <<>> THEN broadcastResult.txid
                        ELSE tx.txID
              /\ invoked[Len(invoked)] = "confirmTransaction"
        /\ ~BroadcastAccepted =>
              /\ pc = "done"
              /\ txID = <<>>
              /\ invoked[Len(invoked)] = "broadcastTransaction"
              /\ queries = 0
              /\ ~settlement.success
              /\ settlement.transaction = <<>>
        /\ (~BroadcastAccepted /\ ~broadcastResult.threw) =>
              settlement.errorMessage =
                 IF broadcastResult.message = "447570207472616e73616374696f6e2e"
                     THEN "Broadcast failed: Dup transaction."
                 ELSE IF broadcastResult.message # "" THEN "Broadcast failed: "
                 ELSE IF broadcastResult.code # ""
                     THEN "Broadcast failed: " \o broadcastResult.code
                 ELSE "Broadcast failed: Unknown broadcast error"

\* the node refused a duplicate; settle failed without polling
C14_Witness ==
    /\ broadcastResult.code = "DUP_TRANSACTION_ERROR"
    /\ pc = "done" /\ queries = 0
    /\ settlement.errorMessage = "Broadcast failed: Dup transaction."

\* C15: the settle result tells broadcast failure, execution failure, missing
\* receipt and confirmation timeout apart by different errorReason codes: a
\* settle that failed after the node accepted the broadcast does not report the
\* code of a broadcast failure.
C15_FailuresHaveDistinctReasons ==
    (op = "settle" /\ pc = "done" /\ ~settlement.success /\ BroadcastAccepted) =>
        settlement.errorReason # "transaction_broadcast_failed"

\* the envelope has a first contract entry, the mirror of the signed bytes
HasMirror(t) ==
    t.json /\ t.raw_data.has_contract /\ Len(t.raw_data.contract) > 0

\* the mirror's data, contract address and owner address all occur verbatim,
\* up to case, in raw_data_hex
MirrorOccurs(t) ==
    LET value == t.raw_data.contract[1]
        raw   == toLowerCase(t.raw_data_hex)
    IN  /\ includes(raw, toLowerCase(value.data))
        /\ includes(raw, toLowerCase(value.contract_address))
        /\ includes(raw, toLowerCase(value.owner_address))

IntegrityErrors ==
    {"integrity_data", "integrity_contract_address", "integrity_owner_address"}

\* the checks that come before the integrity check pass
IntegrityIsEvaluated(t, network) ==
    /\ OwnerIsCompared(t, network)
    /\ RecoveredAddress(t) = fromHex(t.raw_data.contract[1].owner_address)
    /\ Len(t.raw_data.contract[1].data) >= 8

\* C16 as stated: every envelope whose mirror data, contract address or owner
\* address does not occur verbatim (up to case) in raw_data_hex fails to
\* decode with the integrity-mismatch error, whatever the signature.
C16_AbsentMirrorIsIntegrityMismatch ==
    \A d \in DecodeOutcomes :
        (HasMirror(tx) /\ ~MirrorOccurs(tx)) => d.error \in IntegrityErrors

\* C16, amended: every such envelope fails to decode, whatever the signature;
\* the failure is the integrity mismatch when the envelope passes the checks
\* that come before the integrity check (format, hash, recovery, contract
\* kind, signer equals the mirror's owner, data of 8 characters or more), and
\* the failure of the first of those checks otherwise.
C16_AbsentMirrorNeverDecodes ==
    \A d \in DecodeOutcomes :
        (HasMirror(tx) /\ ~MirrorOccurs(tx)) =>
            /\ ~d.ok
            /\ d.error # ""
            /\ IntegrityIsEvaluated(tx, requirements.network)
                  => d.error \in IntegrityErrors

\* mirror owner replaced by the address of the key that signed: the signature
\* is that of the mirror's owner, and the decode failed on integrity
C16_Witness ==
    /\ decoded.error = "integrity_owner_address"
    /\ RecoveredAddress(tx) = fromHex(MalloryHex)
    /\ tx.raw_data.contract[1].owner_address = MalloryHex

\* some entry of the signature list is not 130 hex characters
HasMalformedSignature(t) ==
    \E n \in 1..Len(t.signature) :
        \/ Len(t.signature[n]) # 130
        \/ \E i \in 1..Len(t.signature[n]) : t.signature[n][i] \notin HexChars

\* C17: if any entry of the signature list is not a string of exactly 130 hex
\* characters, decodeTransaction fails with the malformed-signature error
\* before any hash computation or signature recovery is invoked on the chain
\* client.
C17_MalformedSignatureBeforeCrypto ==
    \A d \in DecodeOutcomes :
        (tx.json /\ HasMalformedSignature(tx)) =>
            /\ d = DecodeError("malformed_signature")
            /\ decodeSteps(tx, requirements.network).outcome = d
            /\ decodeSteps(tx, requirements.network).client = <<>>

\* a list whose first entry is the payer's signature and whose second entry
\* is malformed was rejected
C17_Witness ==
    /\ decoded.error = "malformed_signature"
    /\ Len(tx.signature) = 2
    /\ IsSignatureFormat(tx.signature[1])
    /\ ~IsSignatureFormat(tx.signature[2])

\* the checks of decodeTransaction in the order the specification lists
\* them, each named by the error it fails with
SpecifiedOrder ==
    << "invalid_format", "missing_signature", "malformed_signature",
       "missing_raw_data_hex", "raw_data_hex_non_hex", "txid_mismatch",
       "signature_recovery_failed", "missing_contract", "empty_contract_array",
       "unsupported_contract_type", "signature_owner_mismatch",
       "malformed_data", "data_non_hex",
       "integrity_data", "integrity_contract_address", "integrity_owner_address",
       "data_too_short", "nonzero_padding" >>

\* the same checks in the order the code applies them: the pure-hex test of
\* the call data comes after the integrity check
AppliedOrder ==
    << "invalid_format", "missing_signature", "malformed_signature",
       "missing_raw_data_hex", "raw_data_hex_non_hex", "txid_mismatch",
       "signature_recovery_failed", "missing_contract", "empty_contract_array",
       "unsupported_contract_type", "signature_owner_mismatch",
       "malformed_data",
       "integrity_data", "integrity_contract_address", "integrity_owner_address",
       "data_non_hex",
       "data_too_short", "nonzero_padding" >>

\* the check an error of decodeTransaction belongs to
CheckOf(err) ==
    CASE err \in {"transfer_data_too_short", "approve_data_too_short"} -> "data_too_short"
      [] err \in {"transfer_nonzero_padding", "approve_nonzero_padding"} -> "nonzero_padding"
      [] OTHER -> err

\* the checks that envelope t fails, each taken by itself
FailedChecks(t) ==
    LET raw   == toLowerCase(t.raw_data_hex)
        entry == t.raw_data.has_contract /\ Len(t.raw_data.contract) > 0
        value == t.raw_data.contract[1]
        abi   == entry /\ substring(value.data, 0, 8) \in {TRANSFER, APPROVE}
    IN  { c \in { SpecifiedOrder[n] : n \in 1..Len(SpecifiedOrder) } :
            \/ c = "invalid_format" /\ ~t.json
            \/ c = "missing_signature" /\ t.signature = <<>>
            \/ c = "malformed_signature" /\ HasMalformedSignature(t)
            \/ c = "missing_raw_data_hex" /\ t.raw_data_hex = <<>>
            \/ c = "raw_data_hex_non_hex"
                  /\ \E i \in 1..Len(t.raw_data_hex) : t.raw_data_hex[i] \notin HexChars
            \/ c = "txid_mismatch" /\ t.txID # sha256(BufferFromHex(t.raw_data_hex))
            \/ c = "signature_recovery_failed" /\ t.signature # <<>>
                  /\ substring(toLowerCase(t.signature[1]), 128, 130) \notin RecoveryIds
            \/ c = "missing_contract" /\ ~t.raw_data.has_contract
            \/ c = "empty_contract_array" /\ t.raw_data.contract = <<>>
            \/ c = "unsupported_contract_type" /\ entry
                  /\ value.type # "TriggerSmartContract"
            \/ c = "signature_owner_mismatch" /\ entry /\ t.signature # <<>>
                  /\ RecoveredAddress(t) # fromHex(value.owner_address)
            \/ c = "malformed_data" /\ entry /\ Len(value.data) < 8
            \/ c = "data_non_hex" /\ entry
                  /\ \E i \in 1..Len(value.data) : value.data[i] \notin HexChars
            \/ c = "integrity_data" /\ entry
                  /\ ~includes(raw, toLowerCase(value.data))
            \/ c = "integrity_contract_address" /\ entry
                  /\ ~includes(raw, toLowerCase(value.contract_address))
            \/ c = "integrity_owner_address" /\ entry
                  /\ ~includes(raw, toLowerCase(value.owner_address))
            \/ c = "data_too_short" /\ abi /\ Len(value.data) < 136
            \/ c = "nonzero_padding" /\ abi
                  /\ \E i \in 9..32 : i > Len(value.data) \/ value.data[i] # "0" }

\* the first check of the order that is among the failed ones ("" when none)
FirstFailure(order, failed) ==
    IF failed = {} THEN ""
    ELSE order[CHOOSE n \in 1..Len(order) :
                 /\ order[n] \in failed
                 /\ \A m \in 1..(n - 1) : order[m] \notin failed]

\* every decode outcome held is a complete record or the error of the first
\* failure in the given order
ReportsFirstFailure(order) ==
    \A d \in DecodeOutcomes :
        LET first == FirstFailure(order, FailedChecks(tx))
        IN  /\ d.ok = (first = "")
            /\ ~d.ok => d = DecodeError(d.error)
            /\ CheckOf(d.error) = first

\* C18: decodeTransaction applies its checks in the specified order and
\* reports the first failure, with no partial result: parse, signature list,
\* signature format, raw bytes present and hex, hash, recovery, contract entry
\* present and supported, signer equals owner, call data present / pure hex /
\* at least 8 long, integrity, then ABI shape and padding; call data with
\* non-hex characters is rejected by the data-format check before the
\* integrity check.
C18_ChecksInSpecifiedOrder == ReportsFirstFailure(SpecifiedOrder)

\* the first failure in the order the code applies is what every decode
\* reports
C18_ChecksInAppliedOrder == ReportsFirstFailure(AppliedOrder)

\* the mirror's call data starts with the transfer or the approve selector
IsTransferOrApprove(t) ==
    HasMirror(t) /\
        substring(t.raw_data.contract[1].data, 0, 8)
            \in { <<"a", "9", "0", "5", "9", "c", "b", "b">>,
                  <<"0", "9", "5", "e", "a", "7", "b", "3">> }

\* the 24 characters at positions 8..31 of the call data are all "0"
PaddingIsZero(data) == \A i \in 8..31 : i + 1 <= Len(data) /\ data[i + 1] = "0"

C20_OtherSelectorsDecodeAndAreRejected ==
    /\ \A d \in DecodeOutcomes :
          (HasMirror(tx) /\ ~IsTransferOrApprove(tx)) =>
              /\ FailedChecks(tx) = {} => d.ok
              /\ d.ok => /\ d.parameters = NoParams
                         /\ d.functionSelector =
                               substring(tx.raw_data.contract[1].data, 0, 8)
    /\ (decoded.ok /\ decoded.functionSelector # <<"a", "9", "0", "5", "9", "c", "b", "b">>) =>
          /\ ~accepted
          /\ pc # "decoded" =>
                /\ ~verification.isValid
                /\ verification.invalidReason = "invalid_tron_payload_not_transfer"
                /\ invoked = << "decodeTransaction" >>
                /\ op = "settle" => ~settlement.success

\* verify rejected a decoded call of another selector, which carries no
\* parameters
C20_Witness ==
    /\ decoded.ok
    /\ decoded.functionSelector = OTHER_SELECTOR
    /\ decoded.parameters = NoParams
    /\ pc = "done"
    /\ verification.invalidReason = "invalid_tron_payload_not_transfer"

\* verify rejected a well-formed approve as not a transfer
C20_WitnessApprove ==
    /\ decoded.ok
    /\ decoded.functionSelector = APPROVE
    /\ decoded.parameters.spender = fromHex(MerchantHex)
    /\ pc = "done"
    /\ verification.invalidReason = "invalid_tron_payload_not_transfer"

\* the envelope's raw bytes hash to the claimed txID and its first signature
\* recovers to the owner address of the first contract entry, a transfer call
HashAndSignerGenuine(t) ==
    /\ t.json /\ HasMirror(t) /\ t.signature # <<>>
    /\ t.txID = sha256(BufferFromHex(t.raw_data_hex))
    /\ RecoveredAddress(t) = fromHex(t.raw_data.contract[1].owner_address)
    /\ substring(t.raw_data.contract[1].data, 0, 8) = TRANSFER

\* the decode outcome d is a record with exactly the recipient and the amount
\* that the call data spells: its characters 32..71 are the recipient's
\* address and its characters 72..135 the amount in hex
ReturnsEncodedTransfer(d, data) ==
    /\ d.ok
    /\ d.parameters.to = <<"T">> \o Hex41 \o toLowerCase(substring(data, 32, 72))
    /\ d.parameters.amount >= 0
    /\ padStart(toString16(d.parameters.amount), 64) = toLowerCase(substring(data, 72, 136))

PastDecodedChecks == decoded.ok /\ pc # "decoded"

\* C22: for any decoded amount below requirements.amount, verify() rejects
\* with the amount-insufficient reason even when every other check (asset,
\* recipient, sender, facilitator, expiration, balance, cost) would pass: no
\* such transfer is accepted, and one that targets the required asset and
\* recipient is rejected for its amount, whatever the sender, the expiration
\* and the oracles, which are not asked.
C22_UnderpaymentIsRejected ==
    /\ (PastDecodedChecks
        /\ decoded.functionSelector = <<"a", "9", "0", "5", "9", "c", "b", "b">>
        /\ decoded.parameters.amount < requirements.amount) =>
          /\ ~verification.isValid
          /\ ~accepted
          /\ (decoded.contractAddress = requirements.asset
              /\ decoded.parameters.to = requirements.payTo) =>
                 /\ verification.invalidReason =
                        "invalid_tron_payload_amount_insufficient"
                 /\ verification.payer = payload.payload.from
                 /\ invoked = << "decodeTransaction" >>
                 /\ balance = Unasked /\ estimatedEnergy = Unasked
    /\ verification.invalidReason = "invalid_tron_payload_amount_insufficient" =>
          decoded.ok /\ decoded.parameters.amount < requirements.amount

\* the payer's own unexpired transfer of 1 of the asset to the merchant was
\* rejected where 2 are required
C22_Witness ==
    /\ verification.invalidReason = "invalid_tron_payload_amount_insufficient"
    /\ decoded.parameters.amount = 1 /\ requirements.amount = 2
    /\ decoded.ownerAddress = payload.payload.from
    /\ decoded.ownerAddress \notin getAddresses
    /\ ~Expired(decoded, clock)

\* C23: if the decoded owner address is one of the facilitator's own
\* addresses, verify() rejects with the facilitator-is-sender reason even when
\* the transaction is otherwise fully valid; verify() never accepts a payment
\* whose payer is a facilitator address.
C23_FacilitatorIsNeverThePayer ==
    /\ (PastDecodedChecks /\ decoded.ownerAddress \in getAddresses) =>
          /\ ~verification.isValid
          /\ (/\ decoded.functionSelector = TRANSFER
              /\ decoded.contractAddress = requirements.asset
              /\ decoded.parameters.to = requirements.payTo
              /\ decoded.parameters.amount >= requirements.amount
              /\ decoded.ownerAddress = payload.payload.from) =>
                 /\ verification.invalidReason =
                        "invalid_tron_payload_facilitator_is_sender"
                 /\ invoked = << "decodeTransaction" >>
                 /\ balance = Unasked /\ estimatedEnergy = Unasked
    /\ verification.isValid => verification.payer \notin getAddresses
    /\ accepted => payload.payload.from \notin getAddresses
    /\ settlement.success => settlement.payer \notin getAddresses

\* the facilitator's own, genuinely signed and sufficient transfer to the
\* merchant was rejected
C23_Witness ==
    /\ verification.invalidReason = "invalid_tron_payload_facilitator_is_sender"
    /\ RecoveredAddress(tx) = fromHex(FacilitatorHex)
    /\ decoded.parameters.amount >= requirements.amount
    /\ ~Expired(decoded, clock)

\* C24: verify() accepts only transactions with decoded.expiration >= now:
\* for every expiration value, a transaction that passes the earlier checks
\* and whose expiration is earlier than the current time is rejected with the
\* expired reason.
C24_ExpiredIsRejected ==
    /\ (VerifyJustReturned /\ verification.isValid) => decoded.expiration >= now
    /\ (PastDecodedChecks /\ now # 0 /\ decoded.expiration < now) =>
          /\ pc = "done"
          /\ verification.invalidReason = "invalid_tron_payload_expired"

\* the balance query has been answered
BalanceAnswered == balance # Unasked

\* C25: the balance check fails closed: after all earlier checks pass,
\* verify() rejects with insufficient-balance whenever the queried balance is
\* below requirements.amount, rejects with balance-check-failed whenever the
\* balance query raises an error, and never accepts without a successful
\* balance answer >= requirements.amount.
C25_BalanceCheckFailsClosed ==
    /\ (BalanceAnswered /\ balance = Threw) =>
          /\ pc = "done" /\ ~verification.isValid
          /\ verification.invalidReason = "invalid_tron_payload_balance_check_failed"
          /\ verification.payer = payload.payload.from
    /\ (BalanceAnswered /\ balance # Threw /\ balance < requirements.amount) =>
          /\ pc = "done" /\ ~verification.isValid
          /\ verification.invalidReason = "invalid_tron_payload_insufficient_balance"
          /\ verification.payer = payload.payload.from
    /\ (BalanceAnswered /\ (balance = Threw \/ balance < requirements.amount)) =>
          /\ invoked[Len(invoked)] = "getTokenBalance"
          /\ op = "settle" => ~settlement.success
    /\ (VerifyJustReturned /\ verification.isValid) =>
          /\ balance >= requirements.amount
          /\ invoked[2] = "getTokenBalance"

\* the balance query of an otherwise valid payment raised an error and the
\* payment was rejected
C25_Witness ==
    /\ balance = Threw
    /\ pc = "done"
    /\ verification.invalidReason = "invalid_tron_payload_balance_check_failed"

C27_WitnessAtCeiling ==
    /\ estimatedEnergy * 420 = config.maxEnergyFeeSun
    /\ verification.isValid

\* under the default ceiling an estimate of 238095 energy (99,999,900 SUN)
\* was accepted
C27_WitnessBelowCeiling ==
    /\ config.maxEnergyFeeSun = 100000000
    /\ estimatedEnergy = 238095
    /\ verification.isValid

\* C28: whenever verify() returns isValid=true, the returned payer equals the
\* decoded owner address, which is the address recovered from the transaction
\* signature and equals the payload's claimed from; a payload whose claimed
\* from differs from the decoded owner is rejected with sender-mismatch.
C28_PayerIsTheSigner ==
    /\ (VerifyJustReturned /\ verification.isValid) =>
          /\ verification.payer = decoded.ownerAddress
          /\ decoded.ownerAddress = RecoveredAddress(tx)
          /\ decoded.ownerAddress = payload.payload.from
    /\ (PastDecodedChecks /\ decoded.ownerAddress # payload.payload.from) =>
          /\ ~verification.isValid
          /\ (/\ decoded.functionSelector = TRANSFER
              /\ decoded.contractAddress = requirements.asset
              /\ decoded.parameters.to = requirements.payTo
              /\ decoded.parameters.amount >= requirements.amount) =>
                 /\ verification.invalidReason =
                        "invalid_tron_payload_sender_mismatch"
                 /\ invoked = << "decodeTransaction" >>
    /\ settlement.success => settlement.payer = payload.payload.from

\* the payer's sufficient transfer presented under another sender's name was
\* rejected
C28_Witness ==
    /\ verification.invalidReason = "invalid_tron_payload_sender_mismatch"
    /\ decoded.ownerAddress = fromHex(PayerHex)
    /\ payload.payload.from = fromHex(FacilitatorHex)
    /\ decoded.parameters.amount >= requirements.amount

\* an accepted verdict names the signer as payer
C28_WitnessAccepted ==
    /\ op = "verify" /\ pc = "done" /\ verification.isValid
    /\ verification.payer = RecoveredAddress(tx)

\* C29 as stated: every rejection verify() returns for a payload that carries
\* a claimed sender reports that sender in payer (every payload presented
\* here carries one).
C29_RejectionsCarryThePayer ==
    (verification # NoVerification /\ ~verification.isValid) =>
        verification.payer = payload.payload.from

\* C29, amended: every rejection verify() returns once the payload has been
\* recognised as a signed-transaction payload (from the decode step on)
\* reports the payload's claimed sender in payer; the rejections that come
\* before that (scheme, network, payload type) report an empty payer.
C29_RejectionsCarryThePayerOnceRead ==
    (verification # NoVerification /\ ~verification.isValid) =>
        IF verification.invalidReason
              \in {"unsupported_scheme", "network_mismatch", "invalid_tron_payload_type"}
        THEN verification.payer = <<>> /\ invoked = <<>>
        ELSE verification.payer = payload.payload.from /\ invoked # <<>>

\* a payload whose transaction failed to decode was rejected with its claimed
\* sender as payer
C29_Witness ==
    /\ verification.invalidReason = "invalid_tron_payload_decode_failed"
    /\ verification.payer = payload.payload.from
    /\ verification.payer # <<>>

\* a verify() has concluded after an earlier verify() of the same payload and
\* requirements returned
VerifiedTwice == op = "verify" /\ pc = "done" /\ previous # NoPrevious

\* every oracle both calls asked gave both the same answer (the decode is a
\* function of the payload)
SameOracleAnswers ==
    /\ (balance # Unasked /\ previous.balance # Unasked) => balance = previous.balance
    /\ (estimatedEnergy # Unasked /\ previous.estimatedEnergy # Unasked) =>
          estimatedEnergy = previous.estimatedEnergy

\* the two calls read the clock on the same side of the transaction's expiration
SameSideOfExpiration ==
    (now # 0 /\ previous.now # 0) =>
        (Expired(decoded, now) <=> Expired(decoded, previous.now))

\* C30 as stated: two verify() calls on the same payload and requirements,
\* with unchanged answers of decode, balance and cost estimate, return
\* identical results.
C30_VerifyIsIdempotent ==
    (VerifiedTwice /\ SameOracleAnswers) => verification = previous.verification

\* C30, amended: two verify() calls on the same payload and requirements, with
\* unchanged answers of decode, balance and cost estimate, and with the
\* transaction's expiration not passed between the two readings of the clock,
\* return identical results.
C30_VerifyIsIdempotentAtSameTime ==
    (VerifiedTwice /\ SameOracleAnswers /\ SameSideOfExpiration) =>
        verification = previous.verification

\* a payload was accepted twice, at different times, on the same oracle answers
C30_Witness ==
    /\ VerifiedTwice
    /\ previous.now = 1 /\ now = 2
    /\ balance = previous.balance /\ estimatedEnergy = previous.estimatedEnergy
    /\ estimatedEnergy # Unasked
    /\ previous.verification.isValid
    /\ verification = previous.verification

\* a payload was rejected twice for its balance on the same balance answer
C30_WitnessRejected ==
    /\ VerifiedTwice
    /\ balance = 0 /\ previous.balance = 0
    /\ verification.invalidReason = "invalid_tron_payload_insufficient_balance"
    /\ verification = previous.verification

\* C39: every settle() result with success=false has an empty transaction,
\* also when the failure comes after the node accepted the broadcast; a
\* non-empty transaction is the id the broadcast returned and comes only with
\* success=true.
C39_FailedSettleHasNoTransaction ==
    /\ (op = "settle" /\ pc = "done" /\ ~settlement.success) =>
          settlement.transaction = <<>>
    /\ settlement.transaction # <<>> =>
          /\ settlement.success
          /\ BroadcastAccepted
          /\ settlement.transaction = txID
    /\ (op = "settle" /\ pc = "done" /\ settlement.success) =>
          settlement.transaction # <<>>

\* the node accepted the broadcast and returned an id, confirmation failed,
\* and settle() returned success=false with an empty transaction
C39_Witness ==
    /\ op = "settle" /\ pc = "done"
    /\ BroadcastAccepted
    /\ txID # <<>>
    /\ attempt > 0
    /\ ~settlement.success
    /\ settlement.transaction = <<>>

\* the call the chain executes when the signed bytes are broadcast: the
\* first 136 characters of the signed call data
SignedCall(t) == SignedFields(toLowerCase(t.raw_data_hex))

\* settle has handed the client's signed transaction to the node
Broadcast == op = "settle" /\ broadcastResult # NoBroadcastResult

\* C32, routing: the transaction settle broadcasts is always the client's own
\* direct transfer to payTo: signed by the claimed sender, calling transfer
\* on the required asset with requirements.payTo as the recipient.
C32_BroadcastIsDirectTransferToPayTo ==
    Broadcast =>
        /\ fromHex(SignedCall(tx).owner) = payload.payload.from
        /\ substring(SignedCall(tx).data, 0, 8) = TRANSFER
        /\ fromHex(Hex41 \o substring(SignedCall(tx).data, 32, 72)) = requirements.payTo

\* ------------------------------------------------------------------------
\* Properties of EruditePayV2
\* ------------------------------------------------------------------------
\* the last transaction was a payment call
IsPayment == receipt.fn \in {"executePayment", "executeBatchPayment"}

\* the last transaction left storage and ledger as it found them
NothingChanged == State = receipt.before

\* C33: each (payer, nonce) pair is consumed by at most one executed payment,
\* over all executePayment and executeBatchPayment calls; the used nonces are
\* exactly the pairs of the executed payments; and a payment call with an
\* entry whose pair is already used reverts and changes neither the balances
\* nor the used nonces.
C33_NonceUsedAtMostOnce ==
    /\ \A i, j \in DOMAIN paid : paid[i] = paid[j] => i = j
    /\ deployed => usedNonces = { paid[i] : i \in DOMAIN paid }
    /\ (IsPayment /\ \E i \in DOMAIN receipt.args :
            << receipt.args[i].payer, receipt.args[i].nonce >> \in receipt.before.usedNonces) =>
          /\ ~receipt.ok
          /\ balanceOf = receipt.before.balanceOf
          /\ usedNonces = receipt.before.usedNonces
          /\ allowance = receipt.before.allowance

\* a facilitator's payment under a nonce consumed by an earlier payment was
\* refused for the nonce
C33_Witness ==
    /\ receipt.fn = "executePayment"
    /\ ~receipt.ok
    /\ receipt.error = "nonce already used"
    /\ paid # << >>
    /\ << receipt.args[1].payer, receipt.args[1].nonce >> \in usedNonces

\* a batch naming one pair twice was refused as a whole
C33_WitnessBatch ==
    /\ receipt.fn = "executeBatchPayment"
    /\ Len(receipt.args) = 2
    /\ receipt.args[1] = receipt.args[2]
    /\ receipt.error = "nonce already used"
    /\ receipt.before.usedNonces = {}
    /\ usedNonces = {}

\* C34: payments are executed only for senders registered as facilitators at
\* the time of the call: a payment call by an address that is not (never
\* added, or removed again) reverts and changes no state.
C34_OnlyFacilitatorsPay ==
    IsPayment =>
        /\ receipt.ok => receipt.sender \in receipt.before.isFacilitator
        /\ receipt.sender \notin receipt.before.isFacilitator =>
              /\ ~receipt.ok
              /\ receipt.error = "caller is not a facilitator"
              /\ NothingChanged

\* a facilitator that was removed again sent a valid payment and was refused
C34_Witness ==
    /\ receipt.fn = "executePayment"
    /\ receipt.sender = "fac"
    /\ "fac" \in past.isFacilitator
    /\ "fac" \notin receipt.before.isFacilitator
    /\ receipt.args[1] = BasePayment
    /\ ~receipt.ok

\* an address that never was a facilitator was refused
C34_WitnessNeverAdded ==
    /\ IsPayment
    /\ receipt.sender \notin past.isFacilitator
    /\ receipt.error = "caller is not a facilitator"

\* C35: a deployed contract has feeBasisPoints <= 500 and a treasury that is
\* not the zero address; a constructor call that would break this deploys
\* nothing, and a setFee or setTreasury call that would break it reverts and
\* leaves the values as they were.
C35_FeeCapAndTreasury ==
    /\ deployed => feeBasisPoints <= 500 /\ treasury # ZeroAddress
    /\ (receipt.fn = "constructor"
        /\ (receipt.args[1] = ZeroAddress \/ receipt.args[2] > 500)) => ~deployed
    /\ (receipt.fn = "setFee" /\ receipt.args[1] > 500) =>
          ~receipt.ok /\ NothingChanged
    /\ (receipt.fn = "setTreasury" /\ receipt.args[1] = ZeroAddress) =>
          ~receipt.ok /\ NothingChanged

\* the owner asked for a fee of 501 basis points and was refused
C35_Witness ==
    /\ receipt.fn = "setFee"
    /\ receipt.sender = owner
    /\ receipt.args[1] = 501
    /\ receipt.error = "fee exceeds maximum"
    /\ feeBasisPoints = receipt.before.feeBasisPoints

\* the owner asked for the zero treasury and was refused
C35_WitnessTreasury ==
    /\ receipt.fn = "setTreasury"
    /\ receipt.sender = owner
    /\ receipt.args[1] = ZeroAddress
    /\ receipt.error = "treasury cannot be zero"

\* the payment p sent by sender would go through in state st but for the pause
Payable(st, sender, p) ==
    /\ sender \in st.isFacilitator
    /\ p.token # ZeroAddress /\ p.payer # ZeroAddress /\ p.merchant # ZeroAddress
    /\ p.amount > 0
    /\ << p.payer, p.nonce >> \notin st.usedNonces
    /\ st.balanceOf[p.payer] >= p.amount
    /\ st.allowance[p.payer] >= p.amount

\* C36: while paused is true every payment call reverts and leaves balances
\* and used nonces unchanged; paused is changed only by setPaused sent by the
\* owner; and whenever paused is false (again) an otherwise valid payment goes
\* through.
C36_PauseStopsPayments ==
    /\ (IsPayment /\ receipt.before.paused) =>
          /\ ~receipt.ok
          /\ balanceOf = receipt.before.balanceOf
          /\ usedNonces = receipt.before.usedNonces
    /\ (receipt.fn # "constructor" /\ paused # receipt.before.paused) =>
          /\ receipt.fn = "setPaused"
          /\ receipt.sender = receipt.before.owner
    /\ (receipt.fn = "setPaused" /\ receipt.sender # receipt.before.owner) =>
          ~receipt.ok /\ NothingChanged
    /\ (receipt.fn = "executePayment" /\ ~receipt.before.paused
        /\ Payable(receipt.before, receipt.sender, receipt.args[1])) => receipt.ok

\* an otherwise valid payment was refused because the contract was paused
C36_Witness ==
    /\ receipt.fn = "executePayment"
    /\ receipt.before.paused
    /\ Payable(receipt.before, receipt.sender, receipt.args[1])
    /\ receipt.error = "contract is paused"
    /\ balanceOf = receipt.before.balanceOf

\* a payment went through after the contract had been paused and resumed
C36_WitnessResumed ==
    /\ receipt.fn = "executePayment"
    /\ past.paused
    /\ ~receipt.before.paused
    /\ receipt.ok

\* an executed executePayment moved its amount A from the payer to the
\* contract, A - fee on to the merchant and fee on to the treasury, with
\* fee = floor(A * feeBasisPoints / 10000)
MovedAsComputed ==
    LET b == receipt.before
        p == receipt.args[1]
        A == p.amount
        fee == (A * b.feeBasisPoints) \div 10000
        net == A - fee
        in == [b.balanceOf EXCEPT ![p.payer] = @ - A, ![This] = @ + A]
        out == [in EXCEPT ![This] = @ - net, ![p.merchant] = @ + net]
    IN  /\ fee + net = A
        /\ fee * 10000 <= A * b.feeBasisPoints
        /\ A * b.feeBasisPoints < (fee + 1) * 10000
        /\ balanceOf = [out EXCEPT ![This] = @ - fee, ![b.treasury] = @ + fee]

\* C37: every executed payment of gross amount A takes exactly A from the
\* payer, sends fee = floor(A * feeBasisPoints / 10000) to the treasury and
\* A - fee to the merchant, so fee + net = A and the contract's own token
\* balance is unchanged by the payment.
C37_FeeArithmetic ==
    (receipt.fn = "executePayment" /\ receipt.ok) =>
        /\ MovedAsComputed
        /\ balanceOf[This] = receipt.before.balanceOf[This]

\* the same for payments whose merchant and treasury are not the contract
C37_FeeArithmeticToOthers ==
    (receipt.fn = "executePayment" /\ receipt.ok
     /\ receipt.args[1].merchant # This /\ receipt.before.treasury # This) =>
        /\ MovedAsComputed
        /\ balanceOf[This] = receipt.before.balanceOf[This]
        /\ balanceOf["payer"] = receipt.before.balanceOf["payer"] - receipt.args[1].amount

\* a payment of 400 at 25 basis points: fee 1, net 399
C37_WitnessFee ==
    /\ receipt.fn = "executePayment" /\ receipt.ok
    /\ receipt.args[1].amount = 400 /\ receipt.before.feeBasisPoints = 25
    /\ balanceOf["treasury"] = receipt.before.balanceOf["treasury"] + 1
    /\ balanceOf["merchant"] = receipt.before.balanceOf["merchant"] + 399

\* ------------------------------------------------------------------------
\* Properties of concurrent calls
\* ------------------------------------------------------------------------
\* verify(p, req) run alone by a scheme configured with cfg, reading the time
\* t, the balance b and the energy estimate e
verifyAlone(p, req, cfg, t, b, e) ==
    LET from == p.payload.from
        pre == EntryChecks(p, req)
        d == DecodeOf(p.payload.signedTransaction, req.network)
    IN  IF pre # "" THEN Reject(pre, "", <<>>)
        ELSE IF ~d.ok THEN Reject("invalid_tron_payload_decode_failed", d.error, from)
        ELSE IF DecodedChecks(d, p, req) # "" THEN Reject(DecodedChecks(d, p, req), "", from)
        ELSE IF Expired(d, t) THEN Reject("invalid_tron_payload_expired", "", from)
        ELSE IF b = Threw
            THEN Reject("invalid_tron_payload_balance_check_failed",
                        "Balance check failed", from)
        ELSE IF InsufficientBalance(b, req.amount)
            THEN Reject("invalid_tron_payload_insufficient_balance", "", from)
        ELSE IF e # Threw /\ TooExpensive(e, cfg.maxEnergyFeeSun)
            THEN Reject("invalid_tron_payload_energy_too_expensive", "", from)
        ELSE Valid(from)

\* settle(p, req) run alone, after its verify() answered v, with the node
\* answering the broadcast with sentResult and the last of the status queries,
\* number attemptNo, with txInfo
settleAlone(p, req, v, sentResult, attemptNo, txInfo) ==
    LET again == DecodeOf(p.payload.signedTransaction, req.network)
        sent == broadcastTransaction(p.payload.signedTransaction, sentResult)
        step == ConfirmAttempt(attemptNo, txInfo)
        caught(message) ==
            [success |-> FALSE, network |-> p.accepted.network, transaction |-> <<>>,
             errorReason |-> "transaction_broadcast_failed", errorMessage |-> message,
             payer |-> v.payer]
    IN  IF ~v.isValid
            THEN [success |-> FALSE, network |-> p.accepted.network,
                  transaction |-> <<>>,
                  errorReason |-> IF v.invalidReason = "" THEN "verification_failed"
                                  ELSE v.invalidReason,
                  errorMessage |-> v.invalidMessage, payer |-> v.payer]
        ELSE IF ~again.ok THEN caught(again.error)
        ELSE IF sent.threw THEN caught(sent.error)
        ELSE IF step.outcome = "return"
            THEN [success |-> TRUE, network |-> p.accepted.network,
                  transaction |-> sent.txID, errorReason |-> "", errorMessage |-> "",
                  payer |-> v.payer]
        ELSE IF step.outcome = "throw" THEN caught(step.error)
        ELSE caught(ConfirmTimeout)

\* the call with frame f has what it would have when run alone with the
\* answers it got: a settle() past its verify() holds the acceptance of its
\* payer, and a finished call holds the result of the run alone
AsAlone(f) ==
    LET alone == IF f.op = "settle" /\ f.verification.isValid
                 THEN Valid(payload.payload.from)
                 ELSE verifyAlone(payload, requirements, config, f.now, f.balance,
                                  f.estimatedEnergy)
    IN  /\ f.pc \in {"redecoded", "broadcast", "confirm"} =>
              f.op = "settle" /\ f.verification = Valid(payload.payload.from)
        /\ f.pc = "done" =>
              /\ f.verification = alone
              /\ f.op = "settle" =>
                    f.settlement = settleAlone(payload, requirements, alone,
                                               f.broadcastResult, f.attempt, f.polled)

C31_WitnessOvertaken ==
    /\ parked # << >>
    /\ parked[1].op = "verify"
    /\ parked[1].pc = "balance"
    /\ op = "settle"
    /\ pc = "done"
    /\ settlement.success

\* settle() calls that have answered success = true, returned or about to
Succeeded ==
    successes + (IF op = "settle" /\ pc = "done" /\ settlement.success THEN 1 ELSE 0)

\* C38: with a ledger that accepts a signed transaction for broadcast at most
\* once, of all settle() calls on one payload, one after the other or
\* interleaved, at most one answers success = true.
C38_AtMostOneSettleSucceeds ==
    /\ Succeeded <= 1
    /\ Cardinality(ledger) <= 1
    /\ Succeeded = 1 => payload.payload.signedTransaction \in ledger

\* a second settle() of the payload was refused as a duplicate and failed
\* while the first, whose broadcast was accepted, waits for its receipt
C38_Witness ==
    /\ parked # << >>
    /\ parked[1].op = "settle"
    /\ parked[1].pc = "confirm"
    /\ op = "settle"
    /\ pc = "done"
    /\ broadcastResult.code = "DUP_TRANSACTION_ERROR"
    /\ ~settlement.success
    /\ settlement.errorMessage = "Broadcast failed: Dup transaction."

\* the first settle() succeeded and the second, run after it, failed
C38_WitnessSequential ==
    /\ successes = 1
    /\ op = "settle"
    /\ pc = "done"
    /\ broadcastResult.code = "DUP_TRANSACTION_ERROR"
    /\ ~settlement.success

====
